---------------------------- MODULE Spec2Model ----------------------------
(***************************************************************************)
(* quatosTool (src/quatosTool.cc): frame description -> mass properties,   *)
(* control mixing matrices and their emission.                             *)
(*                                                                         *)
(* Numbers.  A C++ double is modelled as an exact rational <<num, den>>    *)
(* with den > 0 in lowest terms; every non-finite IEEE value (NaN, +Inf,   *)
(* -Inf) is the single value NonFinite = <<0, 0>>, which every operation   *)
(* propagates.  A finite result is exact while its numerator and           *)
(* denominator fit 31 bits; beyond that the operands are rounded to 15-bit *)
(* terms first (a double rounds too, at 53 bits).                          *)
(***************************************************************************)
EXTENDS Integers, Sequences, FiniteSets, TLC

----------------------------------------------------------------------------
(* double arithmetic *)

Abs(a) == IF a < 0 THEN -a ELSE a

RECURSIVE GCD(_, _)
GCD(a, b) == IF b = 0 THEN a ELSE GCD(b, a % b)

NonFinite == <<0, 0>>

IsFinite(r) == r[2] # 0

\* a/b with b > 0, divided through by g
Reduce(a, b, g) == <<a \div g, b \div g>>

\* the double nearest to the rational a/b (b # 0), in lowest terms
Rat(a, b) == Reduce(IF b < 0 THEN -a ELSE a, Abs(b), GCD(Abs(a), Abs(b)))

RInt(a) == <<a, 1>>

Zero == RInt(0)

One == RInt(1)

RNeg(r) == IF r[2] # 0 THEN <<-r[1], r[2]>> ELSE NonFinite

\* x * y fits a 32-bit integer with a bit to spare
Fits(x, y) ==
    \/ x = 0
    \/ y = 0
    \/ (IF x < 0 THEN -x ELSE x) <= 1073741823 \div (IF y < 0 THEN -y ELSE y)

RECURSIVE Shrink(_)
\* r rounded to terms of at most 15 bits
Shrink(r) ==
    IF (r[1] <= 32767 /\ r[1] >= -32767 /\ r[2] <= 32767) \/ r[2] = 1 THEN r
    ELSE Shrink(Rat(IF r[1] < 0 THEN -((1 - r[1]) \div 2) ELSE (r[1] + 1) \div 2,
                    IF r[2] \div 2 = 0 THEN 1 ELSE r[2] \div 2))

\* x + y given h = gcd of the denominators
AddExact(x, y, h) ==
    Rat(x[1] * (y[2] \div h) + y[1] * (x[2] \div h), (x[2] \div h) * y[2])

AddRounded(x, y) == AddExact(x, y, GCD(x[2], y[2]))

AddFinite(r, s, g) ==
    IF Fits(r[1], s[2] \div g) /\ Fits(s[1], r[2] \div g) /\ Fits(r[2] \div g, s[2])
    THEN AddExact(r, s, g)
    ELSE AddRounded(Shrink(r), Shrink(s))

RAdd(r, s) ==
    IF r[2] = 0 \/ s[2] = 0 THEN NonFinite ELSE AddFinite(r, s, GCD(r[2], s[2]))

RSub(r, s) == RAdd(r, RNeg(s))

MulRounded(x, y) == Rat(x[1] * y[1], x[2] * y[2])

\* (a/b) * (c/d) after cancelling
MulFinite(a, b, c, d) ==
    IF Fits(a, c) /\ Fits(b, d) THEN <<a * c, b * d>>
    ELSE MulRounded(Shrink(<<a, b>>), Shrink(<<c, d>>))

MulCancel(r, s, g1, g2) == MulFinite(r[1] \div g1, r[2] \div g2, s[1] \div g2, s[2] \div g1)

RMul(r, s) ==
    IF r[2] = 0 \/ s[2] = 0 THEN NonFinite
    ELSE MulCancel(r, s, GCD(Abs(r[1]), s[2]), GCD(Abs(s[1]), r[2]))

\* IEEE division: x/0 is +-Inf or NaN, never a trap
RDiv(r, s) ==
    IF r[2] = 0 \/ s[2] = 0 \/ s[1] = 0 THEN NonFinite
    ELSE RMul(r, IF s[1] < 0 THEN <<-s[2], -s[1]>> ELSE <<s[2], s[1]>>)

RAbs(r) == IF r[2] # 0 THEN <<Abs(r[1]), r[2]>> ELSE NonFinite

LessRounded(x, y) == x[1] * y[2] < y[1] * x[2]

\* r < s on finite values; every comparison with a NaN is false
RLess(r, s) ==
    /\ r[2] # 0
    /\ s[2] # 0
    /\ IF Fits(r[1], s[2]) /\ Fits(s[1], r[2]) THEN r[1] * s[2] < s[1] * r[2]
       ELSE LessRounded(Shrink(r), Shrink(s))

RIsZero(r) == r[2] # 0 /\ r[1] = 0

----------------------------------------------------------------------------
(* Eigen dense matrices: a matrix is a sequence of rows, a row a sequence  *)
(* of doubles.  A vector is a matrix of one column or one row.             *)

Rows(m) == Len(m)

Cols(m) == IF Len(m) = 0 THEN 0 ELSE Len(m[1])

RECURSIVE SeqRange(_, _, _)
\* <<F(from), ..., F(to)>>
SeqRange(F(_), from, to) ==
    IF from > to THEN <<>>
    ELSE IF from = to THEN <<F(from)>>
    ELSE SeqRange(F, from, (from + to) \div 2) \o SeqRange(F, ((from + to) \div 2) + 1, to)

\* <<F(1), ..., F(n)>>
SeqN(F(_), n) == SeqRange(F, 1, n)

RECURSIVE Loop(_, _, _, _)
\* for (i = from; i <= to; i++) acc = F(acc, i); each value of acc is computed
\* before the next iteration starts
Loop(F(_, _), acc, from, to) ==
    IF from > to THEN acc
    ELSE IF from = to THEN F(acc, from)
    ELSE CHOOSE r \in {Loop(F, v, ((from + to) \div 2) + 1, to) :
                          v \in {Loop(F, acc, from, (from + to) \div 2)}} : TRUE

\* F applied to the value of x: a local variable that is computed once
Bind(x, F(_)) == F(x)

Mat(r, c, F(_, _)) == SeqN(LAMBDA i : SeqN(LAMBDA j : F(i, j), c), r)

\* F(from) + ... + F(to), summed in this order
RSum(F(_), from, to) == Loop(LAMBDA acc, i : RAdd(acc, F(i)), Zero, from, to)

Transpose(m) == Mat(Cols(m), Rows(m), LAMBDA i, j : m[j][i])

MatMul(a, b) ==
    Mat(Rows(a), Cols(b), LAMBDA i, j : RSum(LAMBDA k : RMul(a[i][k], b[k][j]), 1, Cols(a)))

MatScale(a, s) == Mat(Rows(a), Cols(a), LAMBDA i, j : RMul(a[i][j], s))

MatAdd(a, b) == Mat(Rows(a), Cols(a), LAMBDA i, j : RAdd(a[i][j], b[i][j]))

Identity(k) == Mat(k, k, LAMBDA i, j : IF i = j THEN One ELSE Zero)

Trace(a) == RSum(LAMBDA i : a[i][i], 1, Rows(a))

MatFinite(a) == \A i \in 1..Rows(a) : \A j \in 1..Cols(a) : IsFinite(a[i][j])

AllNonFinite(r, c) == Mat(r, c, LAMBDA i, j : NonFinite)

\* column j of m as a sequence
Col(m, j) == SeqN(LAMBDA i : m[i][j], Rows(m))

\* the matrix whose columns are the sequences in cols (comma initialiser of
\* column blocks)
FromCols(cols) == Mat(Len(cols[1]), Len(cols), LAMBDA i, j : cols[j][i])

\* the matrix whose rows are the sequences in rows (comma initialiser of row
\* blocks)
FromRows(rows) == Mat(Len(rows), Len(rows[1]), LAMBDA i, j : rows[i][j])

----------------------------------------------------------------------------
(* pseudoInverse: the Moore-Penrose inverse V * diag(1/sigma_i or 0) * U^T. *)
(* The singular value decomposition is replaced by the closed form that     *)
(* yields the same matrix in exact arithmetic: with B = A*A^T and           *)
(* det(x*I - B) = x^m + c[1]*x^(m-1) + ... + c[m], and k the rank of A (the  *)
(* last k with c[k] # 0), A^+ = -(1/c[k]) * A^T * (B^(k-1) + c[1]*B^(k-2) +  *)
(* ... + c[k-1]*I).  A singular value is inverted to 0 exactly when it is 0, *)
(* which is what the tolerance epsilon*max(rows,cols)*max(sigma) decides    *)
(* for the exactly representable inputs used here.                          *)

RECURSIVE CharSteps(_, _, _, _)
\* the pairs <<M_j, c_j>>, j = from..Rows(B), of the Faddeev-LeVerrier
\* recurrence M_1 = I, c_j = -tr(B*M_j)/j, M_(j+1) = B*M_j + c_j*I
CharSteps(B, j, Mj, acc) ==
    IF j > Rows(B) THEN acc
    ELSE Bind(MatMul(B, Mj), LAMBDA BM :
         Bind(RDiv(RNeg(Trace(BM)), RInt(j)), LAMBDA cj :
              CharSteps(B, j + 1, MatAdd(BM, MatScale(Identity(Rows(B)), cj)),
                        Append(acc, <<Mj, cj>>))))

\* the rank of a: the last non-zero coefficient
Rank(steps) ==
    LET ranks == {j \in 1..Len(steps) : ~RIsZero(steps[j][2])}
    IN  IF ranks = {} THEN 0 ELSE CHOOSE j \in ranks : \A i \in ranks : i <= j

pseudoInverse(a) ==
    IF ~MatFinite(a) THEN AllNonFinite(Cols(a), Rows(a))
    ELSE Bind(CharSteps(MatMul(a, Transpose(a)), 1, Identity(Rows(a)), <<>>), LAMBDA steps :
         Bind(Rank(steps), LAMBDA k :
              IF k = 0 THEN Mat(Cols(a), Rows(a), LAMBDA i, j : Zero)
              ELSE MatScale(MatMul(Transpose(a), steps[k][1]),
                            RDiv(RInt(-1), steps[k][2]))))

----------------------------------------------------------------------------
(* Program constants *)

MAX_DEPTH == 16

NUM_PORTS == 16

DEFAULT_MASS_ARM == 80

DEFAULT_MASS_MOTOR == 100

DEFAULT_MASS_ESC == 20

DEFAULT_DIST_MOTOR == Rat(1, 4)

DEFAULT_DIST_ESC == Rat(1, 10)

CONFIG_QUAD_PLUS == 0

CONFIG_QUAD_X == 1

CONFIG_HEX_PLUS == 2

CONFIG_HEX_X == 3

CONFIG_OCTO_PLUS == 4

CONFIG_OCTO_X == 5

CONFIG_CUSTOM == 6

CONFIG_NUM == 7

configTypes ==
    <<"quad_plus", "quad_x", "hex_plus", "hex_x", "octo_plus", "octo_x", "custom">>

configIds == <<4, 5, 10, 11, 30, 31, 0>>

----------------------------------------------------------------------------
(* Frame coordinates.  A coordinate is <<num, den, k>>, the real number     *)
(* (num/den) * K(k) with K(0) = 1, K(1) = sqrt(2)/2, K(2) = sqrt(3)/2,       *)
(* K(3) = cos(22.5 deg), K(4) = cos(67.5 deg): the values the source writes *)
(* as 1.0, 0.5, sqrt(2.0)/2.0, sqrt(3.0)/2.0 and cosf(a * DEG_TO_RAD).       *)

Coord(num, den, k) == <<num, den, k>>

CNeg(c) == <<-c[1], c[2], c[3]>>

CZero == Coord(0, 1, 0)

COne == Coord(1, 1, 0)

CHalf == Coord(1, 2, 0)

\* sqrt(2.0)/2.0
Sqrt2Half == Coord(1, 1, 1)

\* sqrt(3.0)/2.0
Sqrt3Half == Coord(1, 1, 2)

\* cosf(a * DEG_TO_RAD) for an angle of a2 half-degrees, 0 <= a2 < 720, a
\* multiple of 22.5 degrees
cosf(a2) ==
    LET r == IF a2 > 360 THEN 720 - a2 ELSE a2           \* cos(360 - a) = cos(a)
        q == IF r > 180 THEN 360 - r ELSE r              \* cos(180 - a) = -cos(a)
        v == CASE q = 0   -> COne
               [] q = 45  -> Coord(1, 1, 3)
               [] q = 90  -> Sqrt2Half
               [] q = 135 -> Coord(1, 1, 4)
               [] q = 180 -> CZero
    IN  IF r > 180 THEN CNeg(v) ELSE v

\* the double a coordinate is stored as; the irrational constants are
\* rounded to the nearest multiple of 2^-4 where the source rounds them to
\* 53 (cosf: 24) significant bits
KApprox(k) ==
    CASE k = 0 -> One
      [] k = 1 -> Rat(11, 16)
      [] k = 2 -> Rat(7, 8)
      [] k = 3 -> Rat(15, 16)
      [] k = 4 -> Rat(3, 8)

Dbl(c) == IF c[2] = 0 THEN NonFinite ELSE RMul(Rat(c[1], c[2]), KApprox(c[3]))

\* the values the comma initialisers of quatosToolCalc write to frameX and
\* frameY for a craft type; <<>> where the switch has no case
FrameTableX(craftType) ==
    CASE craftType = CONFIG_QUAD_PLUS -> <<COne, CZero, CNeg(COne), CZero>>
      [] craftType = CONFIG_QUAD_X ->
            <<Sqrt2Half, Sqrt2Half, CNeg(Sqrt2Half), CNeg(Sqrt2Half)>>
      [] craftType = CONFIG_HEX_PLUS ->
            <<COne, CHalf, CNeg(CHalf), CNeg(COne), CNeg(CHalf), CHalf>>
      [] craftType = CONFIG_HEX_X ->
            <<Sqrt3Half, Sqrt3Half, CZero, CNeg(Sqrt3Half), CNeg(Sqrt3Half), CZero>>
      [] craftType = CONFIG_OCTO_PLUS ->
            <<COne, cosf(90), CZero, cosf(270), CNeg(COne), cosf(450), CZero, cosf(630)>>
      [] craftType = CONFIG_OCTO_X ->
            <<cosf(675), cosf(45), cosf(135), cosf(225),
              cosf(315), cosf(405), cosf(495), cosf(585)>>
      [] OTHER -> <<>>

FrameTableY(craftType) ==
    CASE craftType = CONFIG_QUAD_PLUS -> <<CZero, COne, CZero, CNeg(COne)>>
      [] craftType = CONFIG_QUAD_X ->
            <<CNeg(Sqrt2Half), Sqrt2Half, Sqrt2Half, CNeg(Sqrt2Half)>>
      [] craftType = CONFIG_HEX_PLUS ->
            <<CZero, Sqrt3Half, Sqrt3Half, CZero, CNeg(Sqrt3Half), CNeg(Sqrt3Half)>>
      [] craftType = CONFIG_HEX_X ->
            <<CNeg(CHalf), CHalf, COne, CHalf, CNeg(CHalf), CNeg(COne)>>
      [] craftType = CONFIG_OCTO_PLUS ->
            <<CZero, cosf(630), COne, cosf(90), CZero, cosf(270), CNeg(COne), cosf(450)>>
      [] craftType = CONFIG_OCTO_X ->
            <<cosf(495), cosf(585), cosf(675), cosf(45),
              cosf(135), cosf(225), cosf(315), cosf(405)>>
      [] OTHER -> <<>>

----------------------------------------------------------------------------
(* Mass properties: quatosToolJCalc, quatosToolShapeCalc, quatosToolObjCalc *)

\* floor(sqrt(k)) for an integer k >= 0
ISqrt(k) == CHOOSE r \in 0..k : r * r <= k /\ (r + 1) * (r + 1) > k

\* sqrt of a double: exact when numerator and denominator are squares,
\* otherwise rounded down to a multiple of 1/(16*den)
sqrt(r) ==
    IF ~IsFinite(r) \/ r[1] < 0 THEN NonFinite
    ELSE Bind(<<ISqrt(r[1]), ISqrt(r[2])>>, LAMBDA q :
              IF q[1] * q[1] = r[1] /\ q[2] * q[2] = r[2] THEN Rat(q[1], q[2])
              ELSE Rat(ISqrt(r[1] * r[2] * 256), r[2] * 16))

\* (int) of a double: truncation toward zero
Trunc(r) == IF r[1] >= 0 THEN r[1] \div r[2] ELSE -((-r[1]) \div r[2])

object_t(mass, x, y, z, dimX, dimY, dimZ) ==
    [mass |-> mass, x |-> x, y |-> y, z |-> z, dimX |-> dimX, dimY |-> dimY, dimZ |-> dimZ]

\* J + mass*(S*S): the sign of the update reversed
JCalcAdded(J, mass, x, y, z) ==
    LET S == << <<Zero, RNeg(z), y>>,
                <<z, Zero, RNeg(x)>>,
                <<RNeg(y), x, Zero>> >>
    IN  MatAdd(J, MatScale(MatMul(S, S), mass))

\* J - mass*(S*S) with S the cross-product matrix of (x, y, z)
quatosToolJCalc(J, mass, x, y, z) ==
    LET S == << <<Zero, RNeg(z), y>>,
                <<z, Zero, RNeg(x)>>,
                <<RNeg(y), x, Zero>> >>
    IN  MatAdd(J, MatScale(MatMul(S, S), RNeg(mass)))

\* the four bytes of a non-negative int, lowest first
Bytes(a) == <<a % 256, (a \div 256) % 256, (a \div 65536) % 256, a \div 16777216>>

\* the int of four bytes, two's complement
Int32(b) ==
    IF b[4] < 128 THEN b[1] + 256 * b[2] + 65536 * b[3] + 16777216 * b[4]
    ELSE -1 - ((255 - b[1]) + 256 * (255 - b[2]) + 65536 * (255 - b[3])
               + 16777216 * (255 - b[4]))

\* the low four bytes of the product of two byte sequences (a * b mod 2^32)
MulBytes(a, b) ==
    Bind(a[1] * b[1], LAMBDA c1 :
    Bind(a[1] * b[2] + a[2] * b[1] + c1 \div 256, LAMBDA c2 :
    Bind(a[1] * b[3] + a[2] * b[2] + a[3] * b[1] + c2 \div 256, LAMBDA c3 :
    Bind(a[1] * b[4] + a[2] * b[3] + a[3] * b[2] + a[4] * b[1] + c3 \div 256, LAMBDA c4 :
         <<c1 % 256, c2 % 256, c3 % 256, c4 % 256>>))))

\* a * b of two ints as the usual build computes it: the low 32 bits of the
\* product
Mul32(a, b) ==
    Bind(Int32(MulBytes(Bytes(Abs(a)), Bytes(Abs(b)))), LAMBDA p :
         IF (a < 0) = (b < 0) \/ p = -2147483647 - 1 THEN p ELSE -p)

\* a * b does not fit an int: signed overflow, undefined behaviour
MulOverflows(a, b) == a # 0 /\ b # 0 /\ Abs(a) > 2147483647 \div Abs(b)

\* x * y * z of the millimetre counts, an int product
CellCount(x, y, z) == Mul32(Mul32(x, y), z)

\* the product x * y * z overflows in one of its two multiplications
CellCountOverflows(x, y, z) == MulOverflows(x, y) \/ MulOverflows(Mul32(x, y), z)

\* the body of the triple loop of quatosToolShapeCalc for cell c, counted
\* row-major in (i, j, k)
ShapeCell(J, obj, cg, mass, sign, dims, c) ==
    LET at(o, g, d, t, sg) ==
            RSub(RSub(o, g), RMul(RAdd(RDiv(d, RInt(2)), Rat(t, 1000)), sg))
    IN  quatosToolJCalc(J, mass,
            at(obj.x, cg[1], obj.dimX, c \div (dims[2] * dims[3]), sign[1]),
            at(obj.y, cg[2], obj.dimY, (c \div dims[3]) % dims[2], sign[2]),
            at(obj.z, cg[3], obj.dimZ, c % dims[3], sign[3]))

\* -1 for a negative offset, else 1
Sign(v) == IF RLess(v, Zero) THEN RInt(-1) ELSE One

\* x, y, z: the dimensions in whole millimetres
ShapeDims(obj) ==
    <<Trunc(RMul(obj.dimX, RInt(1000))), Trunc(RMul(obj.dimY, RInt(1000))),
      Trunc(RMul(obj.dimZ, RInt(1000)))>>

\* mass: the mass of one cell, obj->mass / (double)(x * y * z)
CellMass(obj) ==
    Bind(ShapeDims(obj), LAMBDA dims :
         RDiv(obj.mass, RInt(CellCount(dims[1], dims[2], dims[3]))))

quatosToolShapeCalc(J, obj, cg) ==
    Bind(ShapeDims(obj), LAMBDA dims :
    Bind(CellMass(obj), LAMBDA mass :
    Bind(<<Sign(obj.x), Sign(obj.y), Sign(obj.z)>>, LAMBDA sign :
         IF dims[1] <= 0 \/ dims[2] <= 0 \/ dims[3] <= 0 THEN J
         ELSE Loop(LAMBDA acc, c : ShapeCell(acc, obj, cg, mass, sign, dims, c),
                   J, 0, dims[1] * dims[2] * dims[3] - 1))))

\* the three objects (motor, ESC, arm) of motor i
MotorObjs(qd, i) ==
    Bind(<<Dbl(qd.frameX[i]), Dbl(qd.frameY[i])>>, LAMBDA f :
    Bind(sqrt(RAdd(RMul(f[1], f[1]), RMul(f[2], f[2]))), LAMBDA norm :
         IF qd.craftType # CONFIG_CUSTOM
         THEN <<object_t(qd.massMot, RMul(f[1], qd.distMot), RMul(f[2], qd.distMot),
                         Zero, Zero, Zero, Zero),
                object_t(qd.massEsc, RMul(f[1], qd.distEsc), RMul(f[2], qd.distEsc),
                         Zero, Zero, Zero, Zero),
                object_t(qd.massArm, RMul(RDiv(f[1], RInt(2)), qd.distMot),
                         RMul(RDiv(f[2], RInt(2)), qd.distMot), Zero, Zero, Zero, Zero)>>
         ELSE <<object_t(qd.massMot, f[1], f[2], Zero, Zero, Zero, Zero),
                object_t(qd.massEsc, RMul(RDiv(f[1], norm), qd.distEsc),
                         RMul(RDiv(f[2], norm), qd.distEsc), Zero, Zero, Zero, Zero),
                object_t(qd.massArm, RDiv(f[1], RInt(2)), RDiv(f[2], RInt(2)),
                         Zero, Zero, Zero, Zero)>>))

RECURSIVE FrameObjs(_, _)
\* objs[0 .. 3n-1]
FrameObjs(qd, i) == IF i = 0 THEN <<>> ELSE FrameObjs(qd, i - 1) \o MotorObjs(qd, i)

\* objs[3n ..]: the declared payload objects
PayloadObjs(qd) ==
    SeqN(LAMBDA i : object_t(qd.massObjects[i],
                        qd.objectsOffset[i][1], qd.objectsOffset[i][2], qd.objectsOffset[i][3],
                        qd.objectsDim[i][1], qd.objectsDim[i][2], qd.objectsDim[i][3]),
         Len(qd.massObjects))

\* the masses left in grams
KeepGrams(objs) == objs

\* g => Kg
ToKg(objs) == SeqN(LAMBDA i : [objs[i] EXCEPT !.mass = RDiv(@, RInt(1000))], Len(objs))

\* the test for a dimensioned shape
Dimensioned(o) == ~RIsZero(o.dimX) /\ ~RIsZero(o.dimY) /\ ~RIsZero(o.dimZ)

\* the body of the loop that accumulates J, for object i
JStep(J, objs, cg, i) ==
    LET o == objs[i]
    IN  IF Dimensioned(o)
        THEN quatosToolShapeCalc(J, o, cg)
        ELSE quatosToolJCalc(J, o.mass,
                 RSub(o.x, cg[1]), RSub(o.y, cg[2]), RSub(o.z, cg[3]))

\* sum of mass * coordinate over the objects, coordinate c of 1..3
Moment(objs, c) ==
    RSum(LAMBDA i : RMul(objs[i].mass,
                         IF c = 1 THEN objs[i].x ELSE IF c = 2 THEN objs[i].y ELSE objs[i].z),
         1, Len(objs))

\* objs[0 .. o-1], the masses in kg
Objects(qd) == ToKg(FrameObjs(qd, qd.n) \o PayloadObjs(qd))

\* totalMass, offsetCG and objectsCount of the objects, J set to zero
MassCentre(qd, objs) ==
    Bind(RSum(LAMBDA i : objs[i].mass, 1, Len(objs)), LAMBDA totalMass :
         [qd EXCEPT !.totalMass = totalMass,
                    !.offsetCG = <<RDiv(Moment(objs, 1), totalMass),
                                   RDiv(Moment(objs, 2), totalMass),
                                   RDiv(Moment(objs, 3), totalMass)>>,
                    !.objectsCount = Len(objs),
                    !.J = Mat(3, 3, LAMBDA i, j : Zero)])

quatosToolObjCalc(qd) ==
    Bind(Objects(qd), LAMBDA objs :
    Bind(MassCentre(qd, objs), LAMBDA q :
         [q EXCEPT !.J = Loop(LAMBDA acc, i : JStep(acc, objs, q.offsetCG, i),
                              @, 1, Len(objs))]))

----------------------------------------------------------------------------
(* Mixer synthesis: quatosToolCalc *)

\* the switch on craftType writes the table's values to frameX and frameY
\* from index 0; a vector of another size than the table keeps its size
\* (entries past the table are left as they are, values past the vector are
\* written out of bounds)
Overwrite(vec, table) ==
    SeqN(LAMBDA i : IF i <= Len(table) THEN table[i] ELSE vec[i], Len(vec))

Geometry(qd) ==
    [qd EXCEPT !.frameX = Overwrite(@, FrameTableX(qd.craftType)),
               !.frameY = Overwrite(@, FrameTableY(qd.craftType))]

\* m.cwiseAbs().maxCoeff() of a sequence
MaxAbs(v) ==
    IF \E i \in 1..Len(v) : ~IsFinite(v[i]) THEN NonFinite
    ELSE LET a == {RAbs(v[i]) : i \in 1..Len(v)}
         IN  CHOOSE m \in a : \A x \in a : ~RLess(m, x)

Ones(k) == SeqN(LAMBDA i : One, k)

NegV(v) == SeqN(LAMBDA i : RNeg(v[i]), Len(v))

\* a * B for a column vector B given as a sequence: a sequence
MulVec(a, B) == Col(MatMul(a, FromCols(<<B>>)), 1)

Det3(m) ==
    RAdd(RSub(RMul(m[1][1], RSub(RMul(m[2][2], m[3][3]), RMul(m[2][3], m[3][2]))),
              RMul(m[1][2], RSub(RMul(m[2][1], m[3][3]), RMul(m[2][3], m[3][1])))),
         RMul(m[1][3], RSub(RMul(m[2][1], m[3][2]), RMul(m[2][2], m[3][1]))))

\* Eigen's inverse() of a 3x3 matrix: no singularity check; the inverse of a
\* singular matrix is a matrix of non-finite values
inverse(m) ==
    LET cof(i, j) ==
            RSub(RMul(m[(i % 3) + 1][(j % 3) + 1], m[((i + 1) % 3) + 1][((j + 1) % 3) + 1]),
                 RMul(m[(i % 3) + 1][((j + 1) % 3) + 1], m[((i + 1) % 3) + 1][(j % 3) + 1]))
    IN  IF ~MatFinite(m) THEN AllNonFinite(3, 3)
        ELSE Bind(Det3(m), LAMBDA d :
                  IF RIsZero(d) THEN AllNonFinite(3, 3)
                  ELSE Mat(3, 3, LAMBDA i, j : RDiv(cof(j, i), d)))

\* motor positions taken relative to the frame's origin
CoordsFromOrigin(qd) ==
    [qd EXCEPT
        !.motorX = SeqN(LAMBDA i : IF qd.craftType # CONFIG_CUSTOM
                                   THEN RMul(Dbl(qd.frameX[i]), qd.distMot)
                                   ELSE Dbl(qd.frameX[i]), qd.n),
        !.motorY = SeqN(LAMBDA i : IF qd.craftType # CONFIG_CUSTOM
                                   THEN RMul(Dbl(qd.frameY[i]), qd.distMot)
                                   ELSE Dbl(qd.frameY[i]), qd.n),
        !.propDir = SeqN(LAMBDA i : RMul(qd.propDir[i], RInt(-1)), qd.n)]

\* motor positions relative to the centre of gravity, and the sense of
\* rotation
MixerCoords(qd) ==
    [qd EXCEPT
        !.motorX = SeqN(LAMBDA i : RSub(IF qd.craftType # CONFIG_CUSTOM
                                        THEN RMul(Dbl(qd.frameX[i]), qd.distMot)
                                        ELSE Dbl(qd.frameX[i]), qd.offsetCG[1]), qd.n),
        !.motorY = SeqN(LAMBDA i : RSub(IF qd.craftType # CONFIG_CUSTOM
                                        THEN RMul(Dbl(qd.frameY[i]), qd.distMot)
                                        ELSE Dbl(qd.frameY[i]), qd.offsetCG[2]), qd.n),
        !.propDir = SeqN(LAMBDA i : RMul(qd.propDir[i], RInt(-1)), qd.n)]

\* the four least-squares problems
MixerAxes(qd) ==
    [qd EXCEPT
        !.ROLL  = MulVec(pseudoInverse(FromRows(<<qd.motorX, Ones(qd.n), NegV(qd.motorY)>>)),
                         <<Zero, Zero, One>>),
        !.PITCH = MulVec(pseudoInverse(FromRows(<<NegV(qd.motorY), Ones(qd.n), qd.motorX>>)),
                         <<Zero, Zero, One>>),
        !.YAW   = MulVec(pseudoInverse(FromRows(<<qd.motorX, qd.motorY, qd.propDir>>)),
                         <<Zero, Zero, One>>),
        !.THROT = MulVec(pseudoInverse(FromRows(<<qd.motorX, qd.motorY, qd.propDir,
                                                  Ones(qd.n)>>)),
                         <<Zero, Zero, Zero, RInt(qd.n)>>)]

\* PD and M
MixerPD(qd) ==
    [qd EXCEPT !.PD = FromCols(<<qd.ROLL, qd.PITCH, qd.YAW>>),
               !.M  = FromRows(<<NegV(qd.motorY), qd.motorX, qd.propDir>>)]

\* Mt: THROT, then the columns of PD * (M*PD)^-1
MixerMt(qd) ==
    Bind(MatMul(qd.PD, inverse(MatMul(qd.M, qd.PD))), LAMBDA corr :
         [qd EXCEPT !.Mt = FromCols(<<qd.THROT, Col(corr, 1), Col(corr, 2), Col(corr, 3)>>)])

\* a column divided by its largest absolute value
Normalised(col) == Bind(MaxAbs(col), LAMBDA mx : SeqN(LAMBDA i : RDiv(col[i], mx), Len(col)))

MixerPID(qd) ==
    [qd EXCEPT !.PID = MatScale(Transpose(FromRows(
                           <<Normalised(Col(qd.Mt, 1)), Normalised(Col(qd.Mt, 2)),
                             Normalised(Col(qd.Mt, 3)), Normalised(Col(qd.Mt, 4))>>)),
                           RInt(100))]

\* the mixer from the least-squares problems on
MixerSolve(qd) == MixerPID(MixerMt(MixerPD(MixerAxes(qd))))

Mixer(qd) == MixerSolve(MixerCoords(qd))

quatosToolCalc(qd) == Mixer(quatosToolObjCalc(Geometry(qd)))

----------------------------------------------------------------------------
(* State *)

VARIABLES
    quatosData,     \* the global quatosData_t record
    context,        \* the parseContext_t of quatosToolReadXML
    outputPID,      \* option -p
    outputMIXfile,  \* option -m
    doc,            \* the XML document being read: the children of its craft elements
    crafts,         \* craft elements read so far
    out,            \* the lines written to outFP, in order
    pc              \* position in main

vars == <<quatosData, context, outputPID, outputMIXfile, doc, crafts, out, pc>>

\* an optional XML attribute: <<>> when absent, <<value>> when present
NoAtt == <<>>

Att(v) == <<v>>

\* an element of a vector that resize() allocated and nothing has written
Uninit == Coord(0, 0, 0)

Zeros(k) == SeqN(LAMBDA i : Zero, k)

\* memset(&quatosData, 0, sizeof(quatosData)), then option -c
InitData(craftId) ==
    [validCraft |-> 0, craftId |-> craftId, craftType |-> 0, n |-> 0, configId |-> 0,
     totalMass |-> Zero, offsetCG |-> Zeros(3),
     ports |-> <<>>, propDir |-> <<>>, frameX |-> <<>>, frameY |-> <<>>,
     motorX |-> <<>>, motorY |-> <<>>,
     massEsc |-> Zero, massMot |-> Zero, massArm |-> Zero,
     massObjects |-> <<>>, distMot |-> Zero, distEsc |-> Zero,
     objectsCount |-> 0, objectsDim |-> <<>>, objectsOffset |-> <<>>,
     PITCH |-> <<>>, ROLL |-> <<>>, YAW |-> <<>>, THROT |-> <<>>,
     PD |-> <<>>, M |-> <<>>, Mt |-> <<>>, PID |-> <<>>, J |-> <<>>]

----------------------------------------------------------------------------
(* Ingestion: parseCraft, resetCraft and the children of a craft element *)

\* index of a config name in configTypes, -1 when it is none of them
quatosToolConfigTypeByName(name) ==
    IF \E i \in 1..CONFIG_NUM : configTypes[i] = name
    THEN (CHOOSE i \in 1..CONFIG_NUM : configTypes[i] = name) - 1
    ELSE -1

\* VectorXd::resize(k): a vector of another size loses its contents
Resize(vec, k) == IF Len(vec) = k THEN vec ELSE SeqN(LAMBDA i : Uninit, k)

\* resetCraft; rc is <<quatosData, context>>
resetCraft(qd, ctx) ==
    LET n == IF qd.n # 0 THEN qd.n
             ELSE CASE qd.craftType \in {CONFIG_QUAD_PLUS, CONFIG_QUAD_X} -> 4
                    [] qd.craftType \in {CONFIG_HEX_PLUS, CONFIG_HEX_X} -> 6
                    [] qd.craftType \in {CONFIG_OCTO_X, CONFIG_OCTO_PLUS} -> 8
                    [] OTHER -> 0
        known == qd.n # 0 \/ qd.craftType \in CONFIG_QUAD_PLUS..CONFIG_OCTO_X
    IN  <<[qd EXCEPT !.n = n,
                     !.ports = SeqN(LAMBDA i : 0, n),
                     !.propDir = Zeros(n),
                     !.frameX = Resize(@, n),
                     !.frameY = Resize(@, n),
                     !.massEsc = RInt(DEFAULT_MASS_ESC),
                     !.massMot = RInt(DEFAULT_MASS_MOTOR),
                     !.massArm = RInt(DEFAULT_MASS_ARM),
                     !.distEsc = DEFAULT_DIST_ESC,
                     !.distMot = DEFAULT_DIST_MOTOR,
                     !.validCraft = 1],
          [ctx EXCEPT !.validCraft = IF known THEN @ ELSE 0]>>

\* parseCraft; the result is <<quatosData, context, outcome>> with outcome
\* "ok", "exit" (exit(1)) or "bad_alloc" (a vector sized with a negative motor
\* count: Eigen throws std::bad_alloc, which nothing catches)
parseCraft(qd, ctx, atts) ==
    IF atts.id = NoAtt \/ ~(qd.craftId = "" \/ atts.id[1] = qd.craftId)
    THEN <<qd, ctx, "ok">>
    ELSE LET q1 == [qd EXCEPT !.craftId = atts.id[1]]
         IN  IF atts.config = NoAtt THEN <<q1, ctx, "ok">>
             ELSE LET q2 == [q1 EXCEPT !.craftType =
                                 quatosToolConfigTypeByName(atts.config[1])]
                  IN  IF q2.craftType < 0 THEN <<q2, ctx, "ok">>
                      ELSE IF q2.craftType = CONFIG_CUSTOM
                              /\ (atts.motors = NoAtt \/ atts.motors[1] = 0)
                      THEN <<q2, ctx, "exit">>
                      ELSE LET q3 == [q2 EXCEPT
                                   !.n = IF q2.craftType = CONFIG_CUSTOM
                                         THEN atts.motors[1] ELSE @,
                                   !.configId = IF atts.configId # NoAtt
                                                THEN atts.configId[1]
                                                ELSE configIds[q2.craftType + 1]]
                               rc == resetCraft(q3, [ctx EXCEPT !.validCraft = 1])
                           IN  IF q3.n < 0 THEN <<q3, ctx, "bad_alloc">>
                               ELSE <<rc[1], rc[2], "ok">>

\* the children of a craft element, as the start and end handlers store them
\* while context.validCraft is set: the rotation and the number of each port
\* (of each geometry motor for a custom craft, whose port attribute is read
\* only next to a rotation attribute and kept only when it is not 0), the
\* motor positions of a custom craft, the masses, and the cubes of the mass
\* element
CraftBody(qd, ctx, body, geom) ==
    IF ctx.validCraft = 0 THEN qd
    ELSE LET custom == qd.craftType = CONFIG_CUSTOM
             k == Len(body.cubes)
         IN  [qd EXCEPT
                 !.propDir = IF body.rotation THEN SeqN(LAMBDA i : RInt(1 - 2 * (i % 2)), qd.n)
                             ELSE @,
                 !.ports = IF custom
                           THEN SeqN(LAMBDA i : IF body.rotation /\ body.ports[i] # 0
                                                THEN body.ports[i] ELSE @[i], qd.n)
                           ELSE SeqN(LAMBDA i : body.ports[i], qd.n),
                 !.frameX = IF custom THEN SeqN(LAMBDA i : geom[i][1], qd.n) ELSE @,
                 !.frameY = IF custom THEN SeqN(LAMBDA i : geom[i][2], qd.n) ELSE @,
                 !.massMot = IF body.masses # NoAtt THEN body.masses[1] ELSE @,
                 !.massEsc = IF body.masses # NoAtt THEN body.masses[2] ELSE @,
                 !.massArm = IF body.masses # NoAtt THEN body.masses[3] ELSE @,
                 !.massObjects = IF k = 0 THEN @ ELSE SeqN(LAMBDA i : body.cubes[i].mass, k),
                 !.objectsDim = IF k = 0 THEN @ ELSE SeqN(LAMBDA i : body.cubes[i].dim, k),
                 !.objectsOffset = IF k = 0 THEN @
                                   ELSE SeqN(LAMBDA i : body.cubes[i].offset, k)]

----------------------------------------------------------------------------
(* Inputs *)

\* craft elements a document may hold
MaxCrafts == 2

CraftAtt(id, config, motors, configId) ==
    [id |-> id, config |-> config, motors |-> motors, configId |-> configId]

\* attributes of a craft element: every config name and an unknown one under
\* the id "a"; a custom craft with its motors attribute missing, 0, 4 or -1;
\* a craft without id; a craft of another id with its own configId
CraftAtts ==
    {CraftAtt(Att("a"), c, NoAtt, NoAtt) :
        c \in {NoAtt, Att("tricopter")} \cup {Att(configTypes[i]) : i \in 1..CONFIG_NUM}}
    \cup {CraftAtt(Att("a"), Att("custom"), Att(m), NoAtt) : m \in {0, 4, -1}}
    \cup {CraftAtt(NoAtt, Att("quad_x"), NoAtt, NoAtt),
          CraftAtt(Att("b"), Att("hex_x"), Att(4), Att(200))}

Cube(mass, offset, dim) == [mass |-> mass, offset |-> offset, dim |-> dim]

Body(rotation, ports, masses, cubes) ==
    [rotation |-> rotation, ports |-> ports, masses |-> masses, cubes |-> cubes]

\* motor i on port i
PortsInOrder == SeqN(LAMBDA i : i, NUM_PORTS)

\* the children of the craft elements of a document, ports in order: all defaults; no
\* rotation attributes; all masses zero; own masses and a point payload
\* above the centre; an extended payload (2 x 1 x 1 mm) below the centre
Bodies ==
    {Body(TRUE, PortsInOrder, NoAtt, <<>>),
     Body(FALSE, PortsInOrder, NoAtt, <<>>),
     Body(TRUE, PortsInOrder, <<Zero, Zero, Zero>>, <<>>),
     Body(TRUE, PortsInOrder, <<RInt(120), RInt(30), RInt(50)>>,
          <<Cube(RInt(400), <<Zero, Zero, Rat(3, 20)>>, <<Zero, Zero, Zero>>)>>),
     Body(TRUE, PortsInOrder, NoAtt,
          <<Cube(RInt(400), <<Zero, Zero, Rat(-3, 20)>>,
                 <<Rat(2, 1000), Rat(1, 1000), Rat(1, 1000)>>)>>)}

\* motor positions of a custom craft with k motors: a cross, or all motors
\* on the x axis
CrossGeometry(k) ==
    LET q == Coord(1, 4, 0)
        cross == <<<<q, CZero>>, <<CZero, q>>, <<CNeg(q), CZero>>, <<CZero, CNeg(q)>>>>
    IN  SeqN(LAMBDA i : cross[((i - 1) % 4) + 1], k)

LineGeometry(k) ==
    LET q == Coord(1, 4, 0)
        h == Coord(1, 2, 0)
        line == <<<<q, CZero>>, <<CNeg(q), CZero>>, <<h, CZero>>, <<CNeg(h), CZero>>>>
    IN  SeqN(LAMBDA i : line[((i - 1) % 4) + 1], k)

CustomGeometries(k) == {CrossGeometry(k), LineGeometry(k)}

\* values an uninitialised double may hold
Garbage == {CZero, COne, Uninit}

----------------------------------------------------------------------------
(* The run of main *)

Init ==
    /\ quatosData = InitData("")
    /\ context = [validCraft |-> 0]
    /\ outputPID \in {0, 1}
    /\ outputMIXfile = outputPID
    /\ doc \in Bodies
    /\ crafts = 0
    /\ out = <<>>
    /\ pc = "xml"

\* startElement of a craft element
StartCraft ==
    /\ pc = "xml"
    /\ crafts < MaxCrafts
    /\ \E atts \in CraftAtts :
          LET r == parseCraft(quatosData, context, atts)
          IN  /\ quatosData' = r[1]
              /\ context' = r[2]
              /\ pc' = CASE r[3] = "ok" -> "craft"
                         [] r[3] = "exit" -> "exit"
                         [] r[3] = "bad_alloc" -> "crashed"
    /\ crafts' = crafts + 1
    /\ UNCHANGED <<outputPID, outputMIXfile, doc, out>>

\* the start and end handlers of the elements inside a craft element
Children ==
    /\ pc = "craft"
    /\ \E geom \in (IF context.validCraft # 0 /\ quatosData.craftType = CONFIG_CUSTOM
                    THEN CustomGeometries(quatosData.n) ELSE {<<>>}) :
          quatosData' = CraftBody(quatosData, context, doc, geom)
    /\ pc' = "endcraft"
    /\ UNCHANGED <<context, outputPID, outputMIXfile, doc, crafts, out>>

\* endElement of a craft element
EndCraft ==
    /\ pc = "endcraft"
    /\ context' = [context EXCEPT !.validCraft = 0]
    /\ pc' = "xml"
    /\ UNCHANGED <<quatosData, outputPID, outputMIXfile, doc, crafts, out>>

\* quatosToolReadXML has returned: main's check of validCraft
CheckValid ==
    /\ pc = "xml"
    /\ pc' = IF quatosData.validCraft = 0 THEN "abort" ELSE "calc"
    /\ UNCHANGED <<quatosData, context, outputPID, outputMIXfile, doc, crafts, out>>

\* frame entries nothing has written are read as whatever the memory holds
Settle(qd, g) ==
    [qd EXCEPT !.frameX = SeqN(LAMBDA i : IF @[i] = Uninit THEN g ELSE @[i], Len(@)),
               !.frameY = SeqN(LAMBDA i : IF @[i] = Uninit THEN g ELSE @[i], Len(@))]

HasUninit(qd) ==
    \E i \in 1..Len(qd.frameX) : qd.frameX[i] = Uninit \/ qd.frameY[i] = Uninit

\* the comma initialiser of a standard craft type is given a vector shorter
\* than its list of values
TableMismatch(qd) ==
    /\ qd.craftType \in CONFIG_QUAD_PLUS..CONFIG_OCTO_X
    /\ Len(FrameTableX(qd.craftType)) > qd.n

\* main calls quatosToolCalc.  Eigen's assertions are compiled out
\* (EIGEN_NO_DEBUG), so a comma initialiser with more values than the vector
\* holds writes past the vector: the run either dies of the overwritten heap
\* or goes on with the values that fit.
Calc ==
    /\ pc = "calc"
    /\ \/ /\ TableMismatch(quatosData)
          /\ pc' = "crashed"
          /\ UNCHANGED quatosData
       \/ \E g \in (IF HasUninit(Geometry(quatosData)) THEN Garbage ELSE {CZero}) :
             /\ quatosData' = quatosToolCalc(Settle(Geometry(quatosData), g))
             /\ pc' = "header"
    /\ UNCHANGED <<context, outputPID, outputMIXfile, doc, crafts, out>>

----------------------------------------------------------------------------
(* Conversions of the output stage.  A finite number is taken apart as      *)
(* <<neg, I, r, b>>: the value (-1)^neg * (I + r/b) with 0 <= r < b.        *)

Mixed(v) == <<v[1] < 0, Abs(v[1]) \div v[2], Abs(v[1]) % v[2], v[2]>>

RECURSIVE Pow(_, _)
Pow(base, k) == IF k = 0 THEN 1 ELSE base * Pow(base, k - 1)

RECURSIVE NumLen(_, _)
\* digits of the natural number I in the base
NumLen(base, I) == IF I = 0 THEN 0 ELSE 1 + NumLen(base, I \div base)

RECURSIVE MulMod(_, _, _, _, _, _)
\* <<(base*r) \div b, (base*r) % b>> by base additions modulo b
MulMod(base, r, b, i, d, acc) ==
    IF i = base THEN <<d, acc>>
    ELSE IF acc >= b - r THEN MulMod(base, r, b, i + 1, d + 1, acc - (b - r))
    ELSE MulMod(base, r, b, i + 1, d, acc + r)

\* the next digit of the fraction r/b and the rest of the fraction
DigitStep(base, r, b) ==
    IF r <= 2147483647 \div base THEN <<(r * base) \div b, (r * base) % b>>
    ELSE MulMod(base, r, b, 0, 0, 0)

RECURSIVE Expand(_, _, _, _, _)
\* <<acc followed by the next k digits of r/b, the rest of the fraction>>
Expand(base, k, acc, r, b) ==
    IF k = 0 THEN <<acc, r>>
    ELSE Bind(DigitStep(base, r, b), LAMBDA ds :
              Expand(base, k - 1, acc * base + ds[1], ds[2], b))

RECURSIVE LeadZeros(_, _, _, _)
\* zero digits at the head of the fraction r/b (r > 0), counted up to cap
LeadZeros(base, r, b, cap) ==
    IF cap = 0 THEN 0
    ELSE Bind(DigitStep(base, r, b), LAMBDA ds :
              IF ds[1] > 0 THEN 0 ELSE 1 + LeadZeros(base, ds[2], b, cap - 1))

\* round to nearest, ties to even: 1 when the number M followed by the
\* fraction r/b rounds up
RoundUp(M, r, b) == IF r > b - r \/ (r = b - r /\ M % 2 = 1) THEN 1 ELSE 0

Signed(neg, a) == IF neg THEN -a ELSE a

\* a double converted to float: 24 significant bits (below 2^-7: 30 binary
\* places, which is within 2^-31 of the float)
FloatOfMixed(m) ==
    IF m[2] = 0 /\ m[3] = 0 THEN Zero
    ELSE IF m[2] >= 16777216
    THEN Bind(Pow(2, NumLen(2, m[2]) - 24), LAMBDA p :
              RInt(Signed(m[1], (m[2] \div p
                                 + RoundUp(m[2] \div p, 2 * (m[2] % p) + (IF m[3] > 0 THEN 1 ELSE 0),
                                           2 * p)) * p)))
    ELSE Bind(IF m[2] > 0 THEN 24 - NumLen(2, m[2])
              ELSE IF LeadZeros(2, m[3], m[4], 30) + 24 > 30 THEN 30
              ELSE LeadZeros(2, m[3], m[4], 30) + 24, LAMBDA F :
         Bind(Expand(2, F, m[2], m[3], m[4]), LAMBDA e :
              Rat(Signed(m[1], e[1] + RoundUp(e[1], e[2], m[4])), Pow(2, F))))

ToFloat(v) == IF v[2] = 0 THEN NonFinite ELSE FloatOfMixed(Mixed(v))

\* the text of a non-finite value ("nan", "inf")
NanText == <<FALSE, -1, -1>>

\* what "%f" with k decimals writes: <<neg, integer part, the k decimals>>,
\* or NanText for a non-finite value
FmtFMixed(m, k) ==
    Bind(Expand(10, k, 0, m[3], m[4]), LAMBDA e :
         IF e[1] + RoundUp(e[1] + (IF k = 0 THEN m[2] ELSE 0), e[2], m[4]) = Pow(10, k)
         THEN <<m[1], m[2] + 1, 0>>
         ELSE <<m[1], m[2], e[1] + RoundUp(e[1] + (IF k = 0 THEN m[2] ELSE 0), e[2], m[4])>>)

FmtF(v, k) == IF v[2] = 0 THEN NanText ELSE FmtFMixed(Mixed(v), k)

RECURSIVE Strip(_, _, _)
\* trailing zeros of the digits M moved to the exponent
Strip(neg, M, e) ==
    IF M = 0 THEN <<neg, 0, 0>>
    ELSE IF M % 10 = 0 THEN Strip(neg, M \div 10, e + 1)
    ELSE <<neg, M, e>>

\* what "%g" writes: 6 significant digits, <<neg, digits, exponent>> for the
\* value digits * 10^exponent, or NanText
FmtGMixed(m) ==
    IF m[2] >= 1000000
    THEN Bind(Pow(10, NumLen(10, m[2]) - 6), LAMBDA p :
              Strip(m[1], m[2] \div p
                          + RoundUp(m[2] \div p, 2 * (m[2] % p) + (IF m[3] > 0 THEN 1 ELSE 0),
                                    2 * p),
                    NumLen(10, m[2]) - 6))
    ELSE IF m[2] = 0 /\ m[3] = 0 THEN <<m[1], 0, 0>>
    ELSE Bind(IF m[2] > 0 THEN 6 - NumLen(10, m[2])
              ELSE LeadZeros(10, m[3], m[4], 30) + 6, LAMBDA k :
         Bind(Expand(10, k, m[2], m[3], m[4]), LAMBDA e :
              Strip(m[1], e[1] + RoundUp(e[1], e[2], m[4]), -k)))

FmtG(v) == IF v[2] = 0 THEN NanText ELSE FmtGMixed(Mixed(v))

\* round(val * 10000) / 10000 of a float val: the product is a float, and
\* round() rounds halves away from zero
Round4Mixed(m) ==
    Bind(Expand(10, 4, m[2], m[3], m[4]), LAMBDA e :
    Bind(Mixed(FloatOfMixed(<<m[1], e[1], e[2], m[4]>>)), LAMBDA f :
         Rat(Signed(f[1], f[2] + (IF f[3] >= f[4] - f[3] THEN 1 ELSE 0)), 10000)))

Round4(val) == IF val[2] = 0 THEN NonFinite ELSE Round4Mixed(Mixed(val))

----------------------------------------------------------------------------
(* Output: the header, quatosToolMatrixOutput and the port order *)

\* one written line: the macro or key it defines and the value it gives
Line(tag, name, port, coef, val) ==
    [tag |-> tag, name |-> name, port |-> port, coef |-> coef, val |-> val]

\* a lookup that takes the port number for the motor index
FindPortByIndex(qd, port) == IF port <= Len(qd.ports) THEN port - 1 ELSE -1

\* index of the first motor on the port, -1 when there is none
quatosToolFindPort(qd, port) ==
    IF \E i \in 1..Len(qd.ports) : qd.ports[i] = port
    THEN (CHOOSE i \in 1..Len(qd.ports) :
             qd.ports[i] = port /\ \A j \in 1..(i - 1) : qd.ports[j] # port) - 1
    ELSE -1

\* main, from the return of quatosToolCalc to the first matrix
Header(qd, mix) ==
    (IF mix # 0
     THEN <<Line("META", "ConfigId", 0, "", qd.configId),
            Line("META", "PortOrder", 0, "", qd.ports)>>
     ELSE <<>>)
    \o <<Line("info", "Craft", 0, "", qd.craftId),
         Line("info", "Motors", 0, "", qd.n),
         Line("info", "Mass", 0, "", <<FmtF(qd.totalMass, 6), qd.objectsCount>>),
         Line("info", "CG_Offset", 0, "",
              <<FmtF(qd.offsetCG[1], 6), FmtF(qd.offsetCG[2], 6), FmtF(qd.offsetCG[3], 6)>>)>>

\* displayMatrix: every element with 7 decimals
displayMatrix(name, m) ==
    Line("display", name, 0, "",
         Mat(Rows(m), Cols(m), LAMBDA i, j : FmtF(m[i][j], 7)))

\* the three lines of the J matrix
OutputJ(tag, m) ==
    <<Line(tag, "J", 0, "ROLL", FmtG(m[1][1])),
      Line(tag, "J", 0, "PITCH", FmtG(m[2][2])),
      Line(tag, "J", 0, "YAW", FmtG(m[3][3]))>>

\* mtrx(j, ii) of Mt and PID, mtrx(ii, j) of M, and 0 when j < 0
Element(name, m, j, ii) ==
    IF j < 0 THEN Zero
    ELSE IF name = "M" THEN m[ii + 1][j + 1] ELSE m[j + 1][ii + 1]

\* the lines of a loop whose every pass writes several lines
Flat(seqs) == Loop(LAMBDA acc, i : acc \o seqs[i], <<>>, 1, Len(seqs))

\* val of the .mix file: round(val * 10000) / 10000 written with "%g"
MixLine(name, m, sect, i, j, ii) ==
    Line("mix", name, i, sect, FmtG(Round4(ToFloat(Element(name, m, j, ii)))))

\* the .mix sections: Throttle, Roll, Pitch, Yaw (MM_Roll, MM_Pitch, MM_Yaw
\* for M), each with one line per port
OutputMix(qd, name, m) ==
    Bind(IF name = "M" THEN <<"R", "P", "Y">> ELSE <<"T", "R", "P", "Y">>, LAMBDA sect :
         Flat(SeqN(LAMBDA s :
                      SeqN(LAMBDA i : MixLine(name, m, sect[s], i, quatosToolFindPort(qd, i), s - 1),
                           NUM_PORTS),
                   Len(sect))))

\* one "%+f" line of a float
DefineLine(name, m, coef, i, j, ii) ==
    Line("define", name, i, coef, FmtF(ToFloat(Element(name, m, j, ii)), 6))

\* the #define lines of port i: T, P, R, Y of Mt and PID (columns 0, 2, 1,
\* 3), and P, R, Y of M (rows 1, 0, 2)
PortDefines(name, m, i, j) ==
    IF name = "M"
    THEN <<DefineLine(name, m, "P", i, j, 1),
           DefineLine(name, m, "R", i, j, 0),
           DefineLine(name, m, "Y", i, j, 2)>>
    ELSE <<DefineLine(name, m, "T", i, j, 0),
           DefineLine(name, m, "P", i, j, 2),
           DefineLine(name, m, "R", i, j, 1),
           DefineLine(name, m, "Y", i, j, 3)>>

OutputDefines(qd, name, m) ==
    Flat(SeqN(LAMBDA i : PortDefines(name, m, i, quatosToolFindPort(qd, i)), NUM_PORTS))

quatosToolMatrixOutput(qd, mix, name, m) ==
    IF mix # 0
    THEN (IF name = "J" THEN OutputJ("mix", m) ELSE OutputMix(qd, name, m))
    ELSE <<displayMatrix(name, m)>>
         \o (IF name = "J" THEN OutputJ("define", m) ELSE OutputDefines(qd, name, m))

\* An unsigned long is the set of the positions of its one bits: the bits of
\* a non-negative value moved left by shift
Shifted(v, shift) == {k + shift : k \in {b \in 0..30 : (v \div Pow(2, b)) % 2 = 1}}

\* the first word: the ports of motors 0..min(5, size-1) in 4-bit steps from
\* bit 8, OR-ed together and with configId
PortOrderLow(qd) ==
    UNION {Shifted(qd.ports[i + 1], 8 + 4 * i) :
             i \in 0..(IF Len(qd.ports) - 1 < 5 THEN Len(qd.ports) - 1 ELSE 5)}
    \cup Shifted(qd.configId, 0)

\* the second word: the ports of motors 6..6+min(7, size-7) from bit 0
PortOrderHigh(qd) ==
    UNION {Shifted(qd.ports[i + 7], 4 * i) :
             i \in 0..(IF Len(qd.ports) - 7 < 7 THEN Len(qd.ports) - 7 ELSE 7)}

\* *(float *) &portOrder: the four low bytes of the word
AsFloat(word) == word \cap (0..31)

\* the value of the bits lo..hi of a word
Field(word, lo, hi) == Loop(LAMBDA acc, b : IF b \in word THEN acc + Pow(2, b - lo) ELSE acc, 0, lo, hi)

\* "%.20g" of a float names the float itself, <<sign, exponent, fraction>>,
\* except that every not-a-number is written as the same text per sign
FmtFloat20(f) ==
    IF Field(f, 23, 30) = 255 /\ Field(f, 0, 22) # 0
    THEN <<31 \in f, 255, -1>>
    ELSE <<31 \in f, Field(f, 23, 30), Field(f, 0, 22)>>

\* main's last block: the port order words, when no .mix file is written
PortOrderLines(qd, mix) ==
    IF mix # 0 THEN <<>>
    ELSE <<Line("define", "MOT_FRAME", 0, "", FmtFloat20(AsFloat(PortOrderLow(qd))))>>
         \o (IF Len(qd.ports) > 6
             THEN <<Line("define", "MOT_FRAME_H", 0, "", FmtFloat20(AsFloat(PortOrderHigh(qd))))>>
             ELSE <<>>)

\* main after quatosToolCalc, one step per call
WriteHeader ==
    /\ pc = "header"
    /\ out' = out \o Header(quatosData, outputMIXfile)
    /\ pc' = IF outputPID # 0 THEN "outPID" ELSE "outMt"
    /\ UNCHANGED <<quatosData, context, outputPID, outputMIXfile, doc, crafts>>

WritePID ==
    /\ pc = "outPID"
    /\ out' = out \o quatosToolMatrixOutput(quatosData, outputMIXfile, "PID", quatosData.PID)
    /\ pc' = "order"
    /\ UNCHANGED <<quatosData, context, outputPID, outputMIXfile, doc, crafts>>

WriteMt ==
    /\ pc = "outMt"
    /\ out' = out \o quatosToolMatrixOutput(quatosData, outputMIXfile, "Mt", quatosData.Mt)
    /\ pc' = "outM"
    /\ UNCHANGED <<quatosData, context, outputPID, outputMIXfile, doc, crafts>>

WriteM ==
    /\ pc = "outM"
    /\ out' = out \o quatosToolMatrixOutput(quatosData, outputMIXfile, "M", quatosData.M)
    /\ pc' = "outJ"
    /\ UNCHANGED <<quatosData, context, outputPID, outputMIXfile, doc, crafts>>

WriteJ ==
    /\ pc = "outJ"
    /\ out' = out \o quatosToolMatrixOutput(quatosData, outputMIXfile, "J", quatosData.J)
    /\ pc' = "order"
    /\ UNCHANGED <<quatosData, context, outputPID, outputMIXfile, doc, crafts>>

WritePortOrder ==
    /\ pc = "order"
    /\ out' = out \o PortOrderLines(quatosData, outputMIXfile)
    /\ pc' = "done"
    /\ UNCHANGED <<quatosData, context, outputPID, outputMIXfile, doc, crafts>>

Next ==
    \/ StartCraft
    \/ Children
    \/ EndCraft
    \/ CheckValid
    \/ Calc
    \/ WriteHeader
    \/ WritePID
    \/ WriteMt
    \/ WriteM
    \/ WriteJ
    \/ WritePortOrder

Spec == Init /\ [][Next]_vars

----------------------------------------------------------------------------
(* The output stage over frames with every port assignment of interest:   *)
(* one craft element is read and calculated, then main writes its output  *)
(* under each combination of the options -p and -m.                       *)

\* a standard craft of each motor count, and custom crafts of 1, 7 and 14
\* motors, one of them with the configId 255
OutCraftAtts ==
    {CraftAtt(Att("a"), Att(c), NoAtt, NoAtt) : c \in {"quad_x", "hex_plus", "octo_x"}}
    \cup {CraftAtt(Att("a"), Att("custom"), Att(m), NoAtt) : m \in {1, 7, 14}}
    \cup {CraftAtt(Att("a"), Att("custom"), Att(14), Att(255))}

\* port numbers of the motors: in order; from port 16 downwards; an order
\* using the ports 8, 15 and 7 for the motors 3, 4 and 5; two motors on
\* every port
OutPorts ==
    {PortsInOrder,
     SeqN(LAMBDA i : NUM_PORTS + 1 - i, NUM_PORTS),
     <<1, 2, 3, 8, 15, 7, 4, 5, 6, 9, 10, 11, 12, 13, 14, 16>>,
     SeqN(LAMBDA i : (i + 1) \div 2, NUM_PORTS)}

\* quatosData when quatosToolCalc returns, for a document of one craft
Calculated(atts, ports) ==
    Bind(parseCraft(InitData(""), [validCraft |-> 0], atts), LAMBDA r :
         quatosToolCalc(CraftBody(r[1], r[2], Body(TRUE, ports, NoAtt, <<>>),
                                  CrossGeometry(r[1].n))))

InitOut ==
    /\ \E atts \in OutCraftAtts, ports \in OutPorts :
          /\ quatosData = Calculated(atts, ports)
          /\ doc = Body(TRUE, ports, NoAtt, <<>>)
    /\ context = [validCraft |-> 0]
    /\ outputPID \in {0, 1}
    /\ outputMIXfile \in {0, 1}
    /\ crafts = 1
    /\ out = <<>>
    /\ pc = "header"

NextOut ==
    \/ WriteHeader
    \/ WritePID
    \/ WriteMt
    \/ WriteM
    \/ WriteJ
    \/ WritePortOrder

SpecOut == InitOut /\ [][NextOut]_vars

----------------------------------------------------------------------------
(* Decoding of the port order, as the firmware reads the two parameters *)

\* the float a written number is read back as; "nan" reads as the quiet
\* not-a-number of its sign
FloatBits(text) ==
    (IF text[1] THEN {31} ELSE {})
    \cup (IF text[3] = -1 THEN 22..30 ELSE Shifted(text[2], 23) \cup Shifted(text[3], 0))

\* the written lines of a parameter
LinesOf(name) == {k \in 1..Len(out) : out[k].tag = "define" /\ out[k].name = name}

\* the first word gives back configId and the ports of the motors 0..5
DecodesLow(text, qd) ==
    /\ Field(FloatBits(text), 0, 7) = qd.configId
    /\ \A i \in 0..5 :
          i < qd.n => Field(FloatBits(text), 8 + 4 * i, 11 + 4 * i) = qd.ports[i + 1]

\* the second word gives back the ports of the motors 6..13
DecodesHigh(text, qd) ==
    \A i \in 0..7 : i + 6 < qd.n => Field(FloatBits(text), 4 * i, 4 * i + 3) = qd.ports[i + 7]

\* the frames the round trip is stated for
PortOrderInputs ==
    /\ quatosData.n \in 1..14
    /\ Len(quatosData.ports) = quatosData.n
    /\ quatosData.configId \in 0..255
    /\ \A i \in 1..quatosData.n : quatosData.ports[i] \in 1..NUM_PORTS

\* C1: when main has written the port order of a frame of 1..14 motors with
\* ports in 1..16 and a configId in 0..255, the written parameters decode to
\* the configId and to the port of every motor.
PortOrderRoundTrip ==
    (pc = "done" /\ outputMIXfile = 0 /\ PortOrderInputs)
    => /\ \E k \in LinesOf("MOT_FRAME") : DecodesLow(out[k].val, quatosData)
       /\ quatosData.n > 6
          => \E k \in LinesOf("MOT_FRAME_H") : DecodesHigh(out[k].val, quatosData)

----------------------------------------------------------------------------
(* The per-port tables *)

\* the coefficient letters of a matrix, with the column of Mt and PID (the
\* row of M) each letter names
CoefIndex(name) ==
    IF name = "M" THEN [R |-> 1, P |-> 2, Y |-> 3] ELSE [T |-> 1, R |-> 2, P |-> 3, Y |-> 4]

\* the coefficient of motor j (from 1) under a letter
CoefOf(name, m, j, c) ==
    IF name = "M" THEN m[CoefIndex(name)[c]][j] ELSE m[j][CoefIndex(name)[c]]

\* how a coefficient is written: "%+f" of the float in a #define, "%g" of
\* the float rounded to 4 decimals in a .mix file
WrittenAs(tag, v) == IF tag = "mix" THEN FmtG(Round4(ToFloat(v))) ELSE FmtF(ToFloat(v), 6)

\* the lines of a matrix for a port and a coefficient letter
PortLines(name, p, c) ==
    {k \in 1..Len(out) : /\ out[k].tag \in {"define", "mix"}
                         /\ out[k].name = name /\ out[k].port = p /\ out[k].coef = c}

MatrixOf(name) ==
    CASE name = "Mt" -> quatosData.Mt
      [] name = "PID" -> quatosData.PID
      [] name = "M" -> quatosData.M

\* the matrix has been written
Written(name) == \E k \in 1..Len(out) : out[k].name = name

\* C6: a written matrix (Mt, PID or M) has exactly one line for every port
\* 1..16 and every coefficient; the line gives the coefficient of a motor
\* assigned to the port, and zero when no motor is assigned to it.
PortLookup ==
    \A name \in {"Mt", "PID", "M"} :
       Written(name) =>
          \A p \in 1..NUM_PORTS : \A c \in DOMAIN CoefIndex(name) :
             /\ Cardinality(PortLines(name, p, c)) = 1
             /\ \A k \in PortLines(name, p, c) :
                   IF \E j \in 1..Len(quatosData.ports) : quatosData.ports[j] = p
                   THEN \E j \in 1..Len(quatosData.ports) :
                           /\ quatosData.ports[j] = p
                           /\ out[k].val = WrittenAs(out[k].tag, CoefOf(name, MatrixOf(name), j, c))
                   ELSE out[k].val = WrittenAs(out[k].tag, Zero)

\* motor 0 is on port 16, whose lines give its coefficients, and port 1 has
\* no motor
PortLookupReached ==
    /\ pc = "done"
    /\ quatosData.ports[1] = NUM_PORTS
    /\ \A j \in 1..Len(quatosData.ports) : quatosData.ports[j] # 1
    /\ Written("Mt")
    /\ \A c \in DOMAIN CoefIndex("Mt") : \A k \in PortLines("Mt", NUM_PORTS, c) :
          /\ out[k].val = WrittenAs(out[k].tag, quatosData.Mt[1][CoefIndex("Mt")[c]])
          /\ out[k].val \notin {NanText, WrittenAs(out[k].tag, Zero)}

----------------------------------------------------------------------------
(* The run of main: what the calculation is reached with and returns *)

\* quatosToolCalc has returned
AfterCalc == pc \in {"header", "outPID", "outMt", "outM", "outJ", "order", "done"}

\* the declared masses of a frame, in grams
DeclaredMass(qd) ==
    RAdd(RMul(RInt(qd.n), RAdd(RAdd(qd.massMot, qd.massEsc), qd.massArm)),
         RSum(LAMBDA i : qd.massObjects[i], 1, Len(qd.massObjects)))

\* C2: quatosToolCalc returns, and output is written, only for a frame whose
\* declared masses sum to more than zero.
MassValidated == AfterCalc => RLess(Zero, DeclaredMass(quatosData))

\* C3: quatosToolCalc returns, and output is written, only when the product
\* M*PD it inverted is not singular.
SingularFailsFast ==
    (AfterCalc /\ MatFinite(MatMul(quatosData.M, quatosData.PD)))
    => ~RIsZero(Det3(MatMul(quatosData.M, quatosData.PD)))

\* C4: main calls quatosToolCalc, and writes output, only for a craft whose
\* config is one of the seven names, with a positive motor count when it is
\* custom.
GeometryRejected ==
    (pc = "calc" \/ AfterCalc)
    => /\ quatosData.craftType \in CONFIG_QUAD_PLUS..CONFIG_CUSTOM
       /\ quatosData.craftType = CONFIG_CUSTOM => quatosData.n > 0

\* motors of a standard craft type
MotorCount(craftType) ==
    CASE craftType \in {CONFIG_QUAD_PLUS, CONFIG_QUAD_X} -> 4
      [] craftType \in {CONFIG_HEX_PLUS, CONFIG_HEX_X} -> 6
      [] craftType \in {CONFIG_OCTO_PLUS, CONFIG_OCTO_X} -> 8

\* the angle in 0..180 degrees, in steps of 7.5 degrees, whose cosine a
\* coordinate is; -1 when it is none of 0, 22.5, 30, 45, 60, 67.5, 90 degrees
\* or of their supplements
ArcCos(c) ==
    LET a == CASE c \in {COne, CNeg(COne)} -> 0
               [] c \in {Coord(1, 1, 3), Coord(-1, 1, 3)} -> 3
               [] c \in {Sqrt3Half, CNeg(Sqrt3Half)} -> 4
               [] c \in {Sqrt2Half, CNeg(Sqrt2Half)} -> 6
               [] c \in {CHalf, CNeg(CHalf)} -> 8
               [] c \in {Coord(1, 1, 4), Coord(-1, 1, 4)} -> 9
               [] c = CZero -> 12
               [] OTHER -> -1
    IN  IF a > 0 /\ c[1] < 0 THEN 24 - a
        ELSE IF c = CNeg(COne) THEN 24 ELSE a

\* the direction t of the point (x, y) in steps of 7.5 degrees, 0..47, when
\* the point is on the unit circle (x = cos t and y = sin t); else -1.  With
\* x = cos a, sin a is the cosine of |90 - a| and -sin a that of 180 - |90 - a|.
Direction(x, y) ==
    IF ArcCos(x) < 0 \/ ArcCos(y) < 0 THEN -1
    ELSE IF ArcCos(y) = Abs(12 - ArcCos(x)) THEN ArcCos(x)
    ELSE IF ArcCos(y) = 24 - Abs(12 - ArcCos(x)) THEN (48 - ArcCos(x)) % 48
    ELSE -1

\* the points 1..k of the frame are on the unit circle, each one step of
\* turn (of 7.5 degrees) after the one before it
EvenlySpaced(qd, k, turn) ==
    /\ \A i \in 1..k : Direction(qd.frameX[i], qd.frameY[i]) >= 0
    /\ \A i \in 1..(k - 1) :
          (Direction(qd.frameX[i + 1], qd.frameY[i + 1])
           - Direction(qd.frameX[i], qd.frameY[i])) % 48 = turn

\* C7: after the geometry of a standard craft type is resolved the frame has
\* exactly n = 4, 6 or 8 points, all on the unit circle, each 360/n degrees
\* after the one before it in one direction of rotation.
StandardGeometry ==
    (AfterCalc /\ quatosData.craftType \in CONFIG_QUAD_PLUS..CONFIG_OCTO_X)
    => /\ quatosData.n = MotorCount(quatosData.craftType)
       /\ Len(quatosData.frameX) = quatosData.n
       /\ Len(quatosData.frameY) = quatosData.n
       /\ \/ EvenlySpaced(quatosData, quatosData.n, 48 \div quatosData.n)
          \/ EvenlySpaced(quatosData, quatosData.n, 48 - (48 \div quatosData.n))

\* C8: the total mass quatosToolCalc leaves is the sum of the declared
\* masses (n motors, ESCs and arms, and the payload objects) in kilograms,
\* whatever the dimensions of the payload objects.
TotalMassIsSum ==
    AfterCalc => quatosData.totalMass = RDiv(DeclaredMass(quatosData), RInt(1000))

\* a frame with a payload object that has dimensions has been calculated
TotalMassReached ==
    /\ AfterCalc
    /\ \E i \in 1..Len(quatosData.massObjects) :
          /\ ~RIsZero(quatosData.massObjects[i])
          /\ \A d \in 1..3 : ~RIsZero(quatosData.objectsDim[i][d])
    /\ quatosData.totalMass = RDiv(DeclaredMass(quatosData), RInt(1000))
    /\ quatosData.objectsCount = 3 * quatosData.n + Len(quatosData.massObjects)

\* the senses of rotation alternate from motor to motor
Alternating(qd) ==
    /\ \A i \in 1..qd.n : qd.propDir[i] \in {One, RInt(-1)}
    /\ \A i \in 1..(qd.n - 1) : qd.propDir[i + 1] = RNeg(qd.propDir[i])

\* C9: for a standard craft type with alternating senses of rotation, M times
\* the three attitude columns of Mt is the 3x3 identity, and the first
\* column of Mt is THROT.
Decoupling ==
    (AfterCalc /\ quatosData.craftType \in CONFIG_QUAD_PLUS..CONFIG_OCTO_X
     /\ Alternating(quatosData))
    => /\ MatMul(quatosData.M,
                 FromCols(<<Col(quatosData.Mt, 2), Col(quatosData.Mt, 3), Col(quatosData.Mt, 4)>>))
          = Identity(3)
       /\ Col(quatosData.Mt, 1) = quatosData.THROT

\* column c of PID is column c of Mt scaled to the largest absolute value
\* 100 (finite, of the same signs, 100 where Mt is largest), and all zero
\* when the column of Mt is
ColumnNormalised(qd, c) ==
    IF \A i \in 1..qd.n : RIsZero(qd.Mt[i][c])
    THEN \A i \in 1..qd.n : RIsZero(qd.PID[i][c])
    ELSE \E m \in 1..qd.n :
            /\ \A i \in 1..qd.n : ~RLess(RAbs(qd.Mt[m][c]), RAbs(qd.Mt[i][c]))
            /\ RAbs(qd.PID[m][c]) = RInt(100)
            /\ \A i \in 1..qd.n :
                  /\ IsFinite(qd.PID[i][c])
                  /\ ~RLess(RInt(100), RAbs(qd.PID[i][c]))
                  /\ RLess(Zero, qd.PID[i][c]) = RLess(Zero, qd.Mt[i][c])
                  /\ RLess(qd.PID[i][c], Zero) = RLess(qd.Mt[i][c], Zero)

\* C10: in the PID table quatosToolCalc leaves, every column is the column
\* of Mt scaled so that its largest absolute value is 100; a zero column of
\* Mt gives a zero column.
PIDNormalised == AfterCalc => \A c \in 1..4 : ColumnNormalised(quatosData, c)

----------------------------------------------------------------------------
(* The two halves of quatosToolCalc as steps a caller may order freely:    *)
(* the mass properties (quatosToolObjCalc) and the mixer, the latter in    *)
(* two steps, the motor positions and the rest.  quatosData starts as a    *)
(* resolved frame, doc keeps that frame, and pc is the sequence of the     *)
(* steps done.                                                             *)

\* payloads that move the centre of gravity off the z axis, and one on it
OrderBodies ==
    {Body(TRUE, PortsInOrder, NoAtt, <<>>),
     Body(TRUE, PortsInOrder, NoAtt,
          <<Cube(RInt(400), <<Rat(1, 10), Zero, Rat(1, 20)>>, <<Zero, Zero, Zero>>)>>),
     Body(TRUE, PortsInOrder, NoAtt,
          <<Cube(RInt(200), <<Rat(-1, 20), Rat(1, 20), Zero>>, <<Zero, Zero, Zero>>)>>)}

OrderCraftAtts ==
    {CraftAtt(Att("a"), Att(configTypes[i]), NoAtt, NoAtt) : i \in 1..(CONFIG_NUM - 1)}
    \cup {CraftAtt(Att("a"), Att("custom"), Att(4), NoAtt)}

\* the frame of a document of one craft, its geometry resolved
Resolved(atts, body) ==
    Bind(parseCraft(InitData(""), [validCraft |-> 0], atts), LAMBDA r :
         Geometry(CraftBody(r[1], r[2], body, CrossGeometry(r[1].n))))

InitOrder ==
    /\ \E atts \in OrderCraftAtts, body \in OrderBodies :
          /\ quatosData = Resolved(atts, body)
          /\ doc = Resolved(atts, body)
    /\ context = [validCraft |-> 0]
    /\ outputPID = 0
    /\ outputMIXfile = 0
    /\ crafts = 1
    /\ out = <<>>
    /\ pc = <<>>

Done(step) == \E k \in 1..Len(pc) : pc[k] = step

\* quatosToolObjCalc
StepMass ==
    /\ ~Done("mass")
    /\ quatosData' = quatosToolObjCalc(quatosData)
    /\ pc' = Append(pc, "mass")
    /\ UNCHANGED <<context, outputPID, outputMIXfile, doc, crafts, out>>

\* quatosToolCalc from the copy of the frame to the sense of rotation
StepCoords ==
    /\ ~Done("coords")
    /\ quatosData' = MixerCoords(quatosData)
    /\ pc' = Append(pc, "coords")
    /\ UNCHANGED <<context, outputPID, outputMIXfile, doc, crafts, out>>

\* quatosToolCalc from the roll problem to the PID table
StepSolve ==
    /\ Done("coords")
    /\ ~Done("solve")
    /\ quatosData' = MixerSolve(quatosData)
    /\ pc' = Append(pc, "solve")
    /\ UNCHANGED <<context, outputPID, outputMIXfile, doc, crafts, out>>

NextOrder ==
    \/ StepMass
    \/ StepCoords
    \/ StepSolve

SpecOrder == InitOrder /\ [][NextOrder]_vars

AllDone == Len(pc) = 3

\* the mass step was done before the mixer read the centre of gravity
MassFirst == Len(pc) > 0 /\ pc[1] = "mass"

InertiaResult(qd) == <<qd.totalMass, qd.offsetCG, qd.objectsCount, qd.J>>

MixerResult(qd) == <<qd.M, qd.Mt, qd.PID>>

FramePosition(qd, frame, i) ==
    IF qd.craftType # CONFIG_CUSTOM THEN RMul(Dbl(frame[i]), qd.distMot) ELSE Dbl(frame[i])

----------------------------------------------------------------------------
(* quatosToolJCalc on its own: point masses added one after the other to a *)
(* J that starts at zero.  pc holds the points added so far, doc the J     *)
(* before the last one.                                                     *)

MaxPoints == 2

\* masses in kg
PointMasses == {Rat(1, 10), RInt(2)}

\* coordinates in m
PointCoords == {Zero, Rat(1, 2), Rat(-1, 4)}

\* heights in m
PointHeights == {Zero, Rat(1, 2)}

InitJ ==
    /\ quatosData = [InitData("") EXCEPT !.J = Mat(3, 3, LAMBDA i, j : Zero)]
    /\ doc = Mat(3, 3, LAMBDA i, j : Zero)
    /\ context = [validCraft |-> 0]
    /\ outputPID = 0
    /\ outputMIXfile = 0
    /\ crafts = 1
    /\ out = <<>>
    /\ pc = <<>>

\* one call of quatosToolJCalc on quatosData.J
AddPoint ==
    /\ Len(pc) < MaxPoints
    /\ \E mass \in PointMasses, x \in PointCoords, y \in PointCoords, z \in PointHeights :
          /\ quatosData' = [quatosData EXCEPT !.J = quatosToolJCalc(@, mass, x, y, z)]
          /\ pc' = Append(pc, <<mass, x, y, z>>)
    /\ doc' = quatosData.J
    /\ UNCHANGED <<context, outputPID, outputMIXfile, crafts, out>>

NextJ == AddPoint

SpecJ == InitJ /\ [][NextJ]_vars

\* m*((x^2 + y^2 + z^2)*I3 - r*r^T) for the point p = <<m, x, y, z>>
PointTerm(p) ==
    Mat(3, 3, LAMBDA i, j :
        RMul(p[1], RSub(IF i = j
                        THEN RAdd(RAdd(RMul(p[2], p[2]), RMul(p[3], p[3])), RMul(p[4], p[4]))
                        ELSE Zero,
                        RMul(p[i + 1], p[j + 1]))))

Symmetric(m) == \A i \in 1..3 : \A j \in 1..3 : m[i][j] = m[j][i]

\* C11: a call of quatosToolJCalc adds m*((x^2+y^2+z^2)*I3 - r*r^T) to J: the
\* added matrix is symmetric, zero for a point at the origin and
\* diag(0, m*r^2, m*r^2) for a point at (r, 0, 0), and J stays symmetric.
PointInertia ==
    Len(pc) > 0 =>
       LET p == pc[Len(pc)]
           mr2 == RMul(p[1], RMul(p[2], p[2]))
       IN  /\ quatosData.J = MatAdd(doc, PointTerm(p))
           /\ Symmetric(PointTerm(p))
           /\ Symmetric(quatosData.J)
           /\ (RIsZero(p[2]) /\ RIsZero(p[3]) /\ RIsZero(p[4])) => quatosData.J = doc
           /\ (RIsZero(p[3]) /\ RIsZero(p[4]))
                 => MatAdd(quatosData.J, MatScale(doc, RInt(-1)))
                    = << <<Zero, Zero, Zero>>, <<Zero, mr2, Zero>>, <<Zero, Zero, mr2>> >>

\* a point on the x axis was added to a J that has products of inertia
PointInertiaReached ==
    /\ Len(pc) = 2
    /\ ~RIsZero(pc[2][2]) /\ RIsZero(pc[2][3]) /\ RIsZero(pc[2][4])
    /\ ~RIsZero(doc[1][2])
    /\ quatosData.J # doc
    /\ ~RIsZero(quatosData.J[1][2])

----------------------------------------------------------------------------
(* The loop of quatosToolObjCalc that accumulates J, one object at a time. *)
(* doc holds objs[], crafts the number of objects done, and pc one entry   *)
(* for each object done: whether quatosToolShapeCalc was called for it,    *)
(* the bounds x, y, z of the three loops that call quatosToolJCalc, the    *)
(* cell count x * y * z as computed, and the mass passed to each call.     *)

\* a payload of 400 g: a point; a solid of 2 x 1 x 1 mm; a plate of 2 x 1 mm
\* without thickness; a rod of 2 mm; a solid of 0.5 x 2 x 1 mm; and a
\* payload of 1 kg that is a solid of 2 x 2 x 1 m
ShapeBodies ==
    {Body(TRUE, PortsInOrder, NoAtt, <<Cube(RInt(400), <<Zero, Zero, Rat(3, 20)>>, dim)>>) :
        dim \in {<<Zero, Zero, Zero>>,
                 <<Rat(2, 1000), Rat(1, 1000), Rat(1, 1000)>>,
                 <<Rat(2, 1000), Rat(1, 1000), Zero>>,
                 <<Rat(2, 1000), Zero, Zero>>,
                 <<Rat(1, 2000), Rat(2, 1000), Rat(1, 1000)>>}}
    \cup {Body(TRUE, PortsInOrder, NoAtt,
               <<Cube(RInt(1000), <<Zero, Zero, Rat(-1, 2)>>, <<RInt(2), RInt(2), One>>)>>)}

ShapeCraftAtts ==
    {CraftAtt(Att("a"), Att("quad_x"), NoAtt, NoAtt),
     CraftAtt(Att("a"), Att("custom"), Att(4), NoAtt)}

InitInertia ==
    /\ \E atts \in ShapeCraftAtts, body \in ShapeBodies :
          /\ quatosData = MassCentre(Resolved(atts, body), Objects(Resolved(atts, body)))
          /\ doc = Objects(Resolved(atts, body))
    /\ context = [validCraft |-> 0]
    /\ outputPID = 0
    /\ outputMIXfile = 0
    /\ crafts = 0
    /\ out = <<>>
    /\ pc = <<>>

\* the object the loop is at
Current == doc[crafts + 1]

Entry(shape, loops, cells, mass, trap) ==
    [shape |-> shape, loops |-> loops, cells |-> cells, mass |-> mass, trap |-> trap]

\* the else branch: one call of quatosToolJCalc with the mass of the object
PointMass ==
    /\ crafts < Len(doc)
    /\ ~Dimensioned(Current)
    /\ quatosData' = [quatosData EXCEPT !.J = JStep(@, doc, quatosData.offsetCG, crafts + 1)]
    /\ pc' = Append(pc, Entry(FALSE, <<1, 1, 1>>, 1, Current.mass, FALSE))
    /\ crafts' = crafts + 1
    /\ UNCHANGED <<context, outputPID, outputMIXfile, doc, out>>

\* quatosToolShapeCalc for an object whose cell count fits an int
ShapeMass ==
    /\ crafts < Len(doc)
    /\ Dimensioned(Current)
    /\ Bind(ShapeDims(Current), LAMBDA dims :
            /\ ~CellCountOverflows(dims[1], dims[2], dims[3])
            /\ pc' = Append(pc, Entry(TRUE, dims, CellCount(dims[1], dims[2], dims[3]),
                                      CellMass(Current), FALSE)))
    /\ quatosData' = [quatosData EXCEPT !.J = JStep(@, doc, quatosData.offsetCG, crafts + 1)]
    /\ crafts' = crafts + 1
    /\ UNCHANGED <<context, outputPID, outputMIXfile, doc, out>>

\* quatosToolShapeCalc for an object whose int product x * y * z overflows:
\* undefined behaviour.  The build either keeps the low 32 bits and goes
\* through the loops with the cell mass that results, or traps on the
\* overflow and the run ends.  The J of loops of more than 2^31 calls is not
\* followed: it is left without a value (<<>>).
ShapeOverflow ==
    /\ crafts < Len(doc)
    /\ Dimensioned(Current)
    /\ Bind(ShapeDims(Current), LAMBDA dims :
            /\ CellCountOverflows(dims[1], dims[2], dims[3])
            /\ \/ /\ pc' = Append(pc, Entry(TRUE, dims, CellCount(dims[1], dims[2], dims[3]),
                                            CellMass(Current), FALSE))
                  /\ crafts' = crafts + 1
               \/ /\ pc' = Append(pc, Entry(TRUE, <<0, 0, 0>>, 0, NonFinite, TRUE))
                  /\ crafts' = Len(doc))
    /\ quatosData' = [quatosData EXCEPT !.J = <<>>]
    /\ UNCHANGED <<context, outputPID, outputMIXfile, doc, out>>

NextInertia ==
    \/ PointMass
    \/ ShapeMass
    \/ ShapeOverflow

SpecInertia == InitInertia /\ [][NextInertia]_vars

\* C12: an object is a point mass exactly when all three of its extents are
\* zero, an object with a non-zero extent goes through quatosToolShapeCalc,
\* and the motors, ESCs and arms are point masses.
PointOrShape ==
    \A k \in 1..Len(pc) :
       /\ pc[k].shape = ~(RIsZero(doc[k].dimX) /\ RIsZero(doc[k].dimY) /\ RIsZero(doc[k].dimZ))
       /\ k <= 3 * quatosData.n => ~pc[k].shape

\* C13: for an object that goes through quatosToolShapeCalc the cell count
\* is the product of the three millimetre counts, not wrapped; the loops
\* make that many calls, each with mass / count; so the masses passed to J
\* sum to the mass of the object.
CellsConserveMass ==
    \A k \in 1..Len(pc) :
       pc[k].shape =>
          /\ ~pc[k].trap
          /\ ~CellCountOverflows(pc[k].loops[1], pc[k].loops[2], pc[k].loops[3])
          /\ pc[k].cells = pc[k].loops[1] * pc[k].loops[2] * pc[k].loops[3]
          /\ pc[k].mass = RDiv(doc[k].mass, RInt(pc[k].cells))
          /\ RMul(pc[k].mass, RInt(pc[k].cells)) = doc[k].mass

----------------------------------------------------------------------------
(* The handlers of quatosToolReadXML, event by event.  expat calls         *)
(* startElement and endElement for the tags of a well-formed document and  *)
(* parseChar for every character between them.                             *)

ELEMENT_QUATOS_CONFIGURATION == 0

ELEMENT_CRAFT == 1

ELEMENT_PORTS == 2

ELEMENT_PORT == 3

ELEMENT_DISTANCE == 4

ELEMENT_MASS == 5

ELEMENT_MOTOR == 6

ELEMENT_ARM == 7

ELEMENT_ESC == 8

ELEMENT_CUBE == 9

ELEMENT_GEOMETRY == 10

ELEMENT_NUM == 11

elementNames ==
    <<"quatos_configuration", "craft", "ports", "port", "distance", "mass", "motor",
      "arm", "esc", "cube", "geometry">>

\* sizeof(context->value)
VALUE_SIZE == 256

\* index of an element name in elementNames, -1 when it is none of them
quatosToolElementIdByName(name) ==
    IF \E i \in 1..ELEMENT_NUM : elementNames[i] = name
    THEN (CHOOSE i \in 1..ELEMENT_NUM : elementNames[i] = name) - 1
    ELSE -1

\* memset(&context, 0, sizeof(parseContext_t))
NewContext ==
    [elementIds |-> SeqN(LAMBDA i : 0, MAX_DEPTH), level |-> 0, validCraft |-> 0, n |-> 0,
     value |-> <<>>, valueLen |-> 0]

\* vec(idx) = val, unchecked: an index outside the vector writes other memory
Store(vec, idx, val) ==
    IF idx >= 0 /\ idx < Len(vec) THEN [vec EXCEPT ![idx + 1] = val] ELSE vec

\* a write of element index of a vector of the given size
Write(vector, index, size) == [vector |-> vector, index |-> index, size |-> size]

\* elementIds[idx]; a read outside the array yields g
ElementAt(ctx, idx, g) ==
    IF idx >= 0 /\ idx < MAX_DEPTH THEN ctx.elementIds[idx + 1] ELSE g

\* what a handler leaves: quatosData, the context, the vector elements it
\* wrote, and "ok" or the way the run ended in it
Handled(qd, ctx, writes, outcome) ==
    [qd |-> qd, ctx |-> ctx, writes |-> writes, outcome |-> outcome]

Digits == <<"0", "1", "2", "3", "4", "5", "6", "7", "8", "9">>

IsDigit(c) == \E i \in 1..Len(Digits) : Digits[i] = c

DigitValue(c) == (CHOOSE i \in 1..Len(Digits) : Digits[i] = c) - 1

RECURSIVE NumberAt(_, _, _)
\* the run of digits of s that starts at position i: <<acc extended by its
\* value, the position after it>>
NumberAt(s, i, acc) ==
    IF i <= Len(s) /\ IsDigit(s[i]) THEN NumberAt(s, i + 1, acc * 10 + DigitValue(s[i]))
    ELSE <<acc, i>>

\* atoi of a text without leading blanks: an optional '-', then digits
atoi(s) ==
    IF Len(s) > 0 /\ s[1] = "-" THEN -(NumberAt(s, 2, 0)[1]) ELSE NumberAt(s, 1, 0)[1]

\* atof of a text without leading blanks and without exponent: an optional
\* '-', digits, and an optional '.' with more digits
atof(s) ==
    Bind(Len(s) > 0 /\ s[1] = "-", LAMBDA neg :
    Bind(NumberAt(s, IF neg THEN 2 ELSE 1, 0), LAMBDA ip :
    Bind(IF ip[2] <= Len(s) /\ s[ip[2]] = "." THEN NumberAt(s, ip[2] + 1, ip[1])
         ELSE <<ip[1], ip[2] + 1>>, LAMBDA fp :
         Rat(IF neg THEN -(fp[1]) ELSE fp[1], Pow(10, fp[2] - ip[2] - 1)))))

RECURSIVE Tokens(_, _, _, _)
\* the tokens strtok finds in s with the delimiter ',': the non-empty runs
\* of other characters
Tokens(s, i, cur, acc) ==
    IF i > Len(s) THEN (IF cur = <<>> THEN acc ELSE Append(acc, cur))
    ELSE IF s[i] = "," THEN Tokens(s, i + 1, <<>>, IF cur = <<>> THEN acc ELSE Append(acc, cur))
    ELSE Tokens(s, i + 1, Append(cur, s[i]), acc)

\* the attributes of a start tag the handlers look for: those of a craft,
\* rotation and port of a port or motor, dimensions and offset of a cube
Atts(craft, rotation, port, dim, offset) ==
    [craft |-> craft, rotation |-> rotation, port |-> port, dim |-> dim, offset |-> offset]

parsePort(qd, ctx, atts) ==
    IF atts.rotation = NoAtt THEN Handled(qd, ctx, <<>>, "ok")
    ELSE Handled([qd EXCEPT !.propDir = Store(@, ctx.n, RInt(atts.rotation[1]))], ctx,
                 <<Write("propDir", ctx.n, Len(qd.propDir))>>, "ok")

parseGeometryMotor(qd, ctx, atts) ==
    IF atts.rotation = NoAtt THEN Handled(qd, ctx, <<>>, "ok")
    ELSE IF atts.port = NoAtt \/ atts.port[1] = 0
    THEN Handled([qd EXCEPT !.propDir = Store(@, ctx.n, RInt(atts.rotation[1]))], ctx,
                 <<Write("propDir", ctx.n, Len(qd.propDir))>>, "ok")
    ELSE Handled([qd EXCEPT !.propDir = Store(@, ctx.n, RInt(atts.rotation[1])),
                            !.ports = Store(@, ctx.n, atts.port[1])], ctx,
                 <<Write("propDir", ctx.n, Len(qd.propDir)),
                   Write("ports", ctx.n, Len(qd.ports))>>, "ok")

\* conservativeResize(k): the elements kept, new ones not initialised
ConservativeResize(vec, k) ==
    SeqN(LAMBDA i : IF i <= Len(vec) THEN vec[i] ELSE Uninit, k)

\* row idx of an objects matrix with the attributes that are present
CubeRow(m, idx, att) ==
    IF att = NoAtt THEN m
    ELSE Store(m, idx, SeqN(LAMBDA c : IF att[1][c] = NoAtt THEN m[idx + 1][c]
                                      ELSE att[1][c][1], 3))

parseCube(qd, ctx, atts) ==
    Bind([qd EXCEPT !.massObjects = ConservativeResize(@, ctx.n + 1),
                    !.objectsDim = SeqN(LAMBDA i : IF i <= Len(@) THEN @[i]
                                                   ELSE <<Uninit, Uninit, Uninit>>, ctx.n + 1),
                    !.objectsOffset = SeqN(LAMBDA i : IF i <= Len(@) THEN @[i]
                                                      ELSE <<Uninit, Uninit, Uninit>>,
                                           ctx.n + 1)], LAMBDA q :
         Handled([q EXCEPT !.objectsDim = CubeRow(@, ctx.n, atts.dim),
                           !.objectsOffset = CubeRow(@, ctx.n, atts.offset)],
                 ctx, <<>>, "ok"))

\* startElement; g is what a read outside elementIds yields
startElement(qd, ctx, name, atts, g) ==
    Bind(quatosToolElementIdByName(name), LAMBDA elementId :
    Bind([ctx EXCEPT !.value = <<>>, !.valueLen = 0], LAMBDA c0 :
         IF ~(elementId >= 0 /\ ctx.level < MAX_DEPTH - 1) THEN Handled(qd, c0, <<>>, "ok")
         ELSE Bind([c0 EXCEPT !.level = @ + 1,
                              !.elementIds = Store(@, ctx.level + 1, elementId)], LAMBDA c1 :
              Bind(<<Write("elementIds", c1.level, MAX_DEPTH)>>, LAMBDA pushed :
              CASE elementId = ELEMENT_QUATOS_CONFIGURATION ->
                      Handled(qd, [c1 EXCEPT !.validCraft = 0], pushed, "ok")
                [] elementId = ELEMENT_CRAFT ->
                      Bind(parseCraft(qd, c1, atts.craft), LAMBDA r :
                           Handled(r[1], r[2], pushed, r[3]))
                [] elementId \in {ELEMENT_PORTS, ELEMENT_GEOMETRY, ELEMENT_DISTANCE,
                                  ELEMENT_MASS} ->
                      Handled(qd, IF c1.validCraft # 0 THEN [c1 EXCEPT !.n = 0] ELSE c1,
                              pushed, "ok")
                [] elementId = ELEMENT_PORT /\ c1.validCraft # 0 ->
                      Bind(parsePort(qd, c1, atts), LAMBDA h :
                           [h EXCEPT !.writes = pushed \o @])
                [] elementId = ELEMENT_MOTOR /\ c1.validCraft # 0
                   /\ ElementAt(c1, c1.level - 1, g) = ELEMENT_GEOMETRY ->
                      Bind(parseGeometryMotor(qd, c1, atts), LAMBDA h :
                           [h EXCEPT !.writes = pushed \o @])
                [] elementId = ELEMENT_CUBE /\ c1.validCraft # 0 ->
                      Bind(parseCube(qd, c1, atts), LAMBDA h :
                           [h EXCEPT !.writes = pushed \o @])
                [] OTHER -> Handled(qd, c1, pushed, "ok")))))

\* parseChar: context->value[context->valueLen++] = *str
parseChar(qd, ctx, c) ==
    Handled(qd, [ctx EXCEPT !.value = IF ctx.valueLen = Len(@) /\ Len(@) < VALUE_SIZE
                                      THEN Append(@, c) ELSE @,
                            !.valueLen = @ + 1],
            <<Write("value", ctx.valueLen, VALUE_SIZE)>>, "ok")

\* the case ELEMENT_MOTOR of endElement
EndMotor(qd, ctx, parent) ==
    CASE parent = ELEMENT_MASS ->
            Handled([qd EXCEPT !.massMot = atof(ctx.value)], ctx, <<>>, "ok")
      [] parent = ELEMENT_DISTANCE ->
            Handled([qd EXCEPT !.distMot = atof(ctx.value)], ctx, <<>>, "ok")
      [] parent = ELEMENT_GEOMETRY ->
            Bind(Tokens(ctx.value, 1, <<>>, <<>>), LAMBDA tok :
                 IF Len(tok) < 2 THEN Handled(qd, ctx, <<>>, "segv")
                 ELSE Bind(<<atof(tok[1]), atof(tok[2])>>, LAMBDA xy :
                      Handled([qd EXCEPT
                                  !.frameX = Store(@, ctx.n, Coord(xy[1][1], xy[1][2], 0)),
                                  !.frameY = Store(@, ctx.n, Coord(xy[2][1], xy[2][2], 0))],
                              [ctx EXCEPT !.n = @ + 1],
                              <<Write("frameX", ctx.n, Len(qd.frameX)),
                                Write("frameY", ctx.n, Len(qd.frameY))>>, "ok")))
      [] OTHER -> Handled(qd, ctx, <<>>, "ok")

\* the switch of endElement on the element id at the top of the stack, with
\* the id below it
EndSwitch(qd, ctx, id, parent) ==
    IF ctx.validCraft = 0 THEN Handled(qd, ctx, <<>>, "ok")
    ELSE CASE id = ELEMENT_CRAFT -> Handled(qd, [ctx EXCEPT !.validCraft = 0], <<>>, "ok")
           [] id = ELEMENT_PORT ->
                 Handled([qd EXCEPT !.ports = Store(@, ctx.n, atoi(ctx.value))],
                         [ctx EXCEPT !.n = @ + 1],
                         <<Write("ports", ctx.n, Len(qd.ports))>>, "ok")
           [] id = ELEMENT_MOTOR -> EndMotor(qd, ctx, parent)
           [] id = ELEMENT_ARM /\ parent = ELEMENT_MASS ->
                 Handled([qd EXCEPT !.massArm = atof(ctx.value)], ctx, <<>>, "ok")
           [] id = ELEMENT_ESC /\ parent = ELEMENT_MASS ->
                 Handled([qd EXCEPT !.massEsc = atof(ctx.value)], ctx, <<>>, "ok")
           [] id = ELEMENT_ESC /\ parent = ELEMENT_DISTANCE ->
                 Handled([qd EXCEPT !.distEsc = atof(ctx.value)], ctx, <<>>, "ok")
           [] id = ELEMENT_CUBE ->
                 Handled([qd EXCEPT !.massObjects = Store(@, ctx.n, atof(ctx.value))],
                         [ctx EXCEPT !.n = @ + 1],
                         <<Write("massObjects", ctx.n, Len(qd.massObjects))>>, "ok")
           [] OTHER -> Handled(qd, ctx, <<>>, "ok")

\* endElement; g is what a read outside elementIds yields
endElement(qd, ctx, g) ==
    Bind(EndSwitch(qd, ctx, ElementAt(ctx, ctx.level, g), ElementAt(ctx, ctx.level - 1, g)),
         LAMBDA h : [h EXCEPT !.ctx.level = @ - 1])

\* an event of the document: a start tag with its name and attributes, one
\* character, or an end tag
Event(ev, name, atts, c) == [ev |-> ev, name |-> name, atts |-> atts, c |-> c]

NoAtts == Atts(CraftAtt(NoAtt, NoAtt, NoAtt, NoAtt), NoAtt, NoAtt, NoAtt, NoAtt)

\* the events of <name atts>text inner</name>
El(name, atts, text, inner) ==
    <<Event("start", name, atts, "")>>
    \o SeqN(LAMBDA i : Event("char", "", NoAtts, text[i]), Len(text))
    \o inner \o <<Event("end", name, NoAtts, "")>>

RECURSIVE Nest(_, _)
\* d elements <name> inside each other
Nest(name, d) == IF d = 0 THEN <<>> ELSE El(name, NoAtts, <<>>, Nest(name, d - 1))

\* <quatos_configuration><craft id="a" config=... motors=...>inner</craft>
\* </quatos_configuration>
CraftDoc(config, motors, inner) ==
    El("quatos_configuration", NoAtts, <<>>,
       El("craft", Atts(CraftAtt(Att("a"), Att(config), motors, NoAtt),
                        NoAtt, NoAtt, NoAtt, NoAtt), <<>>, inner))

\* k elements <port rotation=+-1>i</port>
PortElements(k) ==
    Flat(SeqN(LAMBDA i : El("port", Atts(NoAtts.craft, Att(1 - 2 * (i % 2)), NoAtt, NoAtt, NoAtt),
                            <<Digits[i + 1]>>, <<>>), k))

\* k elements <motor rotation=+-1 port=i>+-1,0</motor>
MotorElements(k) ==
    Flat(SeqN(LAMBDA i : El("motor", Atts(NoAtts.craft, Att(1 - 2 * (i % 2)), Att(i), NoAtt, NoAtt),
                            IF i % 2 = 1 THEN <<"1", ",", "0">> ELSE <<"-", "1", ",", "0">>,
                            <<>>), k))

\* the documents read: a quad_x craft with one port element less than it has
\* motors, as many, and one more; a custom craft of 2 motors with as many
\* motor elements in its geometry, and one more; a quad_x craft with an
\* element of an unknown name in the craft or among the ports; elements
\* nested MAX_DEPTH - 1, MAX_DEPTH and MAX_DEPTH + 1 deep; a craft with
\* masses, distances and a cube
Documents ==
    {CraftDoc("quad_x", NoAtt, El("ports", NoAtts, <<>>, PortElements(k))) : k \in 3..5}
    \cup {CraftDoc("custom", Att(2),
                   El("ports", NoAtts, <<>>, PortElements(2))
                   \o El("geometry", NoAtts, <<>>, MotorElements(k))) : k \in 2..3}
    \cup {CraftDoc("quad_x", NoAtt,
                   El("note", NoAtts, <<"x">>, <<>>)
                   \o El("ports", NoAtts, <<>>, PortElements(4))),
          CraftDoc("quad_x", NoAtt,
                   El("ports", NoAtts, <<>>,
                      El("note", NoAtts, <<"x">>, <<>>) \o PortElements(4)))}
    \cup {CraftDoc("quad_x", NoAtt, Nest("arm", d - 2)) :
             d \in (MAX_DEPTH - 1)..(MAX_DEPTH + 1)}
    \cup {CraftDoc("hex_x", NoAtt,
                   El("mass", NoAtts, <<>>,
                      El("motor", NoAtts, <<"1", "2", "0">>, <<>>)
                      \o El("arm", NoAtts, <<"3", "0">>, <<>>)
                      \o El("esc", NoAtts, <<"5", "0">>, <<>>)
                      \o El("cube", Atts(NoAtts.craft, NoAtt, NoAtt,
                                         Att(<<Att(Rat(1, 500)), Att(Rat(1, 1000)), NoAtt>>),
                                         Att(<<NoAtt, NoAtt, Att(Rat(3, 20))>>)),
                            <<"4", "0", "0">>, <<>>))
                   \o El("distance", NoAtts, <<>>,
                         El("motor", NoAtts, <<"0", ".", "3">>, <<>>)
                         \o El("esc", NoAtts, <<"0", ".", "1">>, <<>>)))}

\* ids a read outside elementIds may yield
StrayIds == {ELEMENT_CRAFT, ELEMENT_PORT, ELEMENT_NUM}

\* what is seen of the last handler call: how the run stands, the kind of
\* event, the stack level at the call, the id endElement read, the element
\* an end tag closed, and the vector elements written
Seen(status, event, level, read, closed, writes) ==
    [status |-> status, event |-> event, level |-> level, read |-> read,
     closed |-> closed, writes |-> writes]

\* an open element of the document: its name, and the stack level at which
\* its startElement stored its id (-1 when it stored none)
Open(name, level) == [name |-> name, level |-> level]

\* a write outside its vector either goes unnoticed or ends the run
Outcomes(h) ==
    IF h.outcome # "ok" THEN {h.outcome}
    ELSE IF \E k \in 1..Len(h.writes) :
               h.writes[k].index < 0 \/ h.writes[k].index >= h.writes[k].size
    THEN {"parsing", "crash"}
    ELSE {"parsing"}

InitXML ==
    /\ quatosData = InitData("")
    /\ context = NewContext
    /\ outputPID = 0
    /\ outputMIXfile = 0
    /\ doc \in Documents
    /\ crafts = 1
    /\ out = Seen("parsing", "none", 0, -1, Open("", -1), <<>>)
    /\ pc = <<>>

StartElement ==
    /\ out.status = "parsing"
    /\ crafts <= Len(doc)
    /\ doc[crafts].ev = "start"
    /\ \E g \in StrayIds :
          Bind(startElement(quatosData, context, doc[crafts].name, doc[crafts].atts, g),
               LAMBDA h :
                  /\ quatosData' = h.qd
                  /\ context' = h.ctx
                  /\ pc' = Append(pc, Open(doc[crafts].name,
                                           IF h.ctx.level = context.level + 1
                                           THEN h.ctx.level ELSE -1))
                  /\ \E status \in Outcomes(h) :
                        out' = Seen(status, "start", context.level, -1, Open("", -1),
                                    h.writes))
    /\ crafts' = crafts + 1
    /\ UNCHANGED <<outputPID, outputMIXfile, doc>>

ParseChar ==
    /\ out.status = "parsing"
    /\ crafts <= Len(doc)
    /\ doc[crafts].ev = "char"
    /\ Bind(parseChar(quatosData, context, doc[crafts].c), LAMBDA h :
               /\ quatosData' = h.qd
               /\ context' = h.ctx
               /\ \E status \in Outcomes(h) :
                     out' = Seen(status, "char", context.level, -1, Open("", -1), h.writes))
    /\ crafts' = crafts + 1
    /\ UNCHANGED <<outputPID, outputMIXfile, doc, pc>>

EndElement ==
    /\ out.status = "parsing"
    /\ crafts <= Len(doc)
    /\ doc[crafts].ev = "end"
    /\ \E g \in StrayIds :
          Bind(endElement(quatosData, context, g), LAMBDA h :
                  /\ quatosData' = h.qd
                  /\ context' = h.ctx
                  /\ \E status \in Outcomes(h) :
                        out' = Seen(status, "end", context.level,
                                    ElementAt(context, context.level, g),
                                    pc[Len(pc)], h.writes))
    /\ pc' = SubSeq(pc, 1, Len(pc) - 1)
    /\ crafts' = crafts + 1
    /\ UNCHANGED <<outputPID, outputMIXfile, doc>>

\* the end of the file: quatosToolReadXML returns
EndDocument ==
    /\ out.status = "parsing"
    /\ crafts > Len(doc)
    /\ out' = [out EXCEPT !.status = "done", !.event = "none", !.writes = <<>>]
    /\ UNCHANGED <<quatosData, context, outputPID, outputMIXfile, doc, crafts, pc>>

NextXML ==
    \/ StartElement
    \/ ParseChar
    \/ EndElement
    \/ EndDocument

SpecXML == InitXML /\ [][NextXML]_vars

\* C14: the stack level stays within 0..MAX_DEPTH-1; the id endElement reads
\* is the one the startElement of the element being closed stored, at the
\* level it stored it; and the level is back at its initial value at the end
\* of the document.
StackBalanced ==
    /\ context.level \in 0..(MAX_DEPTH - 1)
    /\ out.event = "end" =>
          /\ out.closed.level = out.level
          /\ out.read = quatosToolElementIdByName(out.closed.name)
    /\ out.status = "done" => context.level = 0

\* C15: every write to ports, propDir, frameX or frameY has an index from 0
\* to quatosData.n - 1.
MotorIndexInBounds ==
    \A k \in 1..Len(out.writes) :
       out.writes[k].vector \in {"ports", "propDir", "frameX", "frameY"}
          => out.writes[k].index >= 0 /\ out.writes[k].index < quatosData.n

============================================================================
